---- MODULE Spec2Model ----
(***************************************************************************)
(* A model of the aiOS agents:                                             *)
(*   - os_ai_agent.py  : the inline-tag agent (decoder, denylist executor, *)
(*                       recursive feedback loop)                          *)
(*   - web_server.py   : WebOSAgent, the same loop emitting socket events  *)
(*   - web_agent.py    : the tool-call agent behind /api/chat (SSE         *)
(*                       generator), /api/stop, /api/clear, /api/execute   *)
(* Text is modelled as a sequence of one-character strings, so that the    *)
(* regular expressions, strip(), lower() and the substring tests of the    *)
(* source are computed and not assumed.                                    *)
(***************************************************************************)
EXTENDS Integers, Sequences, FiniteSets, TLC

VARIABLES
    \* ---- decoder harness (extract_commands_and_tags on its own)
    text,           \* the model output handed to the decoder
    markers,        \* the markers the text was written from, in document order
    tags,           \* the value returned by extract_commands_and_tags
    \* ---- direct executor entry points
    xlog,           \* calls of execute_command: entry point, command, result, spawned
    \* ---- the inline-tag loop (process_response_with_iteration); it reads `text`
    \*      as ai_response and keeps the decoder's answer in `tags`
    agent,          \* "cli": os_ai_agent.OSAgent, "socket": web_server.WebOSAgent
    ipc,            \* where the loop stands
    cursor,              \* index of the next entry of tags["ordered_tags"]
    commands_needing_feedback,
    execution_successful,
    ran,            \* this turn's host actions, as a spy on the host sees them
    sent,           \* the prompt of the latest query_llm call
    queries,        \* number of query_llm calls so far
    \* ---- web_agent.py: the one global agent and the /api/chat requests on it
    stop_requested,         \* agent.stop_requested
    conversation_history,   \* agent.conversation_history: who appended which role
    run,            \* per /api/chat request: the frame of process_request_streaming
    stops,          \* number of POST /api/stop requests served
    \* ---- query_llm, called by a request thread (web_agent) or by the CLI agent;
    \*      for the CLI agent conversation_history is os_ai_agent's list
    llm,            \* per caller: the frame of query_llm / summarize_context
    \* ---- the host's file system, as far as the file tools touch it
    file,           \* the one file under observation: path, exists, content
    \* ---- web_server.py: the lock around the one global WebOSAgent
    agent_lock      \* 0 when free, else the user_message handler that holds it

decodeVars == <<text, markers, tags>>
execVars == <<xlog>>
loopVars == <<agent, ipc, cursor, commands_needing_feedback, execution_successful, ran, sent, queries>>
webVars == <<stop_requested, conversation_history, run, stops, llm, file, agent_lock>>
vars == <<text, markers, tags, xlog,
          agent, ipc, cursor, commands_needing_feedback, execution_successful, ran, sent, queries,
          stop_requested, conversation_history, run, stops, llm, file, agent_lock>>

\* ------------------------------------------------------------------ bounds
MaxSegs == 3

\* ------------------------------------------------------------- characters
UPPER == <<"A","B","C","D","E","F","G","H","I","J","K","L","M",
           "N","O","P","Q","R","S","T","U","V","W","X","Y","Z">>
LOWER == <<"a","b","c","d","e","f","g","h","i","j","k","l","m",
           "n","o","p","q","r","s","t","u","v","w","x","y","z">>

\* str.lower() on one character
ToLower == [c \in {UPPER[k] : k \in 1..Len(UPPER)} |->
               LOWER[CHOOSE k \in 1..Len(UPPER) : UPPER[k] = c]]

LowerChar(c) == IF c \in DOMAIN ToLower THEN ToLower[c] ELSE c

\* TLC evaluates an operator's arguments and LET definitions each time they are
\* used. Bind evaluates v once and applies F to its value.
Bind(v, F(_)) == CHOOSE y \in {F(x) : x \in {v}} : TRUE

\* str.lower()
Lower(s0) == Bind(s0, LAMBDA s : [k \in 1..Len(s) |-> LowerChar(s[k])])

\* what \s and str.strip() treat as white space
IsSpace(c) == c \in {" ", "\n", "\t"}

SetMin(S0) == Bind(S0, LAMBDA S : CHOOSE x \in S : \A y \in S : x <= y)
SetMax(S0) == Bind(S0, LAMBDA S : CHOOSE x \in S : \A y \in S : y <= x)

\* str.strip()
Strip(s0) ==
    Bind(s0, LAMBDA s :
        Bind({k \in 1..Len(s) : ~IsSpace(s[k])}, LAMBDA keep :
            IF keep = {} THEN <<>> ELSE SubSeq(s, SetMin(keep), SetMax(keep))))

\* Python's `p in s` on strings
IsSubstr(p0, s0) ==
    \E p \in {p0}, s \in {s0} :
        \E k \in 0..(Len(s) - Len(p)) : SubSeq(s, k + 1, k + Len(p)) = p

\* ------------------------------------------------- regular-expression parts
LIT_COMMAND_OPEN == <<"<", "C", "O", "M", "M", "A", "N", "D">>
LIT_RETURN_OUTPUT == <<"r", "e", "t", "u", "r", "n", "_", "o", "u", "t", "p", "u", "t", "=", "\"">>
LIT_TRUE == <<"t", "r", "u", "e">>
LIT_FALSE == <<"f", "a", "l", "s", "e">>
LIT_ATTR_CLOSE == <<"\"", ">">>
LIT_COMMAND_CLOSE == <<"<", "/", "C", "O", "M", "M", "A", "N", "D", ">">>
LIT_LEGACY_OPEN == <<"<", "C", "O", "M", "M", "A", "N", "D", ">">>
LIT_WRITEFILE_OPEN == <<"<", "W", "R", "I", "T", "E", "F", "I", "L", "E">>
LIT_FILENAME == <<"f", "i", "l", "e", "n", "a", "m", "e", "=", "\"">>
LIT_WRITEFILE_CLOSE == <<"<", "/", "W", "R", "I", "T", "E", "F", "I", "L", "E", ">">>
LIT_DONE_OPEN == <<"<", "D", "O", "N", "E", ">">>
LIT_DONE_CLOSE == <<"<", "/", "D", "O", "N", "E", ">">>

\* the literal `lit` matches `t` at index p (1-based), ignoring case (re.IGNORECASE)
MatchLit(t, p0, lit) ==
    \E p \in {p0} :
        /\ p >= 1
        /\ p + Len(lit) - 1 =< Len(t)
        /\ \A k \in 1..Len(lit) : LowerChar(t[p + k - 1]) = LowerChar(lit[k])

\* the first index >= p at which `lit` matches, 0 when there is none:
\* where a lazy (.*?) followed by `lit` ends
FindLit(t, p0, lit) ==
    Bind({q \in p0..(Len(t) - Len(lit) + 1) : MatchLit(t, q, lit)}, LAMBDA hits :
        IF hits = {} THEN 0 ELSE SetMin(hits))

\* the first index >= p that is not white space (Len(t) + 1 when none): \s+
RECURSIVE SkipSpaces(_, _)
SkipSpaces(t, p0) ==
    Bind(p0, LAMBDA p :
        IF p =< Len(t) /\ IsSpace(t[p]) THEN SkipSpaces(t, p + 1) ELSE p)

NoMatch == [start |-> -1, stop |-> -1, g1 |-> <<>>, g2 |-> <<>>]

Match(p, stop, g1, g2) == [start |-> p - 1, stop |-> stop, g1 |-> g1, g2 |-> g2]

\* r'<COMMAND\s+return_output="(true|false)">(.*?)</COMMAND>' tried at index p.
\* start is match.start() (0-based), stop the 1-based index after the match.
command_pattern(t, p) ==
    IF ~MatchLit(t, p, LIT_COMMAND_OPEN) THEN NoMatch
    ELSE Bind(SkipSpaces(t, p + Len(LIT_COMMAND_OPEN)), LAMBDA q2 :        \* \s+
        IF q2 = p + Len(LIT_COMMAND_OPEN) \/ ~MatchLit(t, q2, LIT_RETURN_OUTPUT)
        THEN NoMatch
        ELSE Bind(q2 + Len(LIT_RETURN_OUTPUT), LAMBDA q3 :                 \* (true|false)
            Bind(IF MatchLit(t, q3, LIT_TRUE) THEN q3 + Len(LIT_TRUE)
                 ELSE IF MatchLit(t, q3, LIT_FALSE) THEN q3 + Len(LIT_FALSE)
                 ELSE 0, LAMBDA q4 :
                IF q4 = 0 \/ ~MatchLit(t, q4, LIT_ATTR_CLOSE) THEN NoMatch
                ELSE Bind(FindLit(t, q4 + Len(LIT_ATTR_CLOSE), LIT_COMMAND_CLOSE), LAMBDA c :
                    IF c = 0 THEN NoMatch
                    ELSE Match(p, c + Len(LIT_COMMAND_CLOSE), SubSeq(t, q3, q4 - 1),
                               SubSeq(t, q4 + Len(LIT_ATTR_CLOSE), c - 1))))))

\* r'<COMMAND>(.*?)</COMMAND>' tried at index p
legacy_command_pattern(t, p) ==
    IF ~MatchLit(t, p, LIT_LEGACY_OPEN) THEN NoMatch
    ELSE Bind(FindLit(t, p + Len(LIT_LEGACY_OPEN), LIT_COMMAND_CLOSE), LAMBDA c :
        IF c = 0 THEN NoMatch
        ELSE Match(p, c + Len(LIT_COMMAND_CLOSE),
                   SubSeq(t, p + Len(LIT_LEGACY_OPEN), c - 1), <<>>))

\* r'<WRITEFILE\s+filename="([^"]+)">(.*?)</WRITEFILE>' tried at index p
writefile_pattern(t, p) ==
    IF ~MatchLit(t, p, LIT_WRITEFILE_OPEN) THEN NoMatch
    ELSE Bind(SkipSpaces(t, p + Len(LIT_WRITEFILE_OPEN)), LAMBDA q2 :      \* \s+
        IF q2 = p + Len(LIT_WRITEFILE_OPEN) \/ ~MatchLit(t, q2, LIT_FILENAME)
        THEN NoMatch
        ELSE Bind(q2 + Len(LIT_FILENAME), LAMBDA q3 :
            Bind(FindLit(t, q3, <<"\"">>), LAMBDA q4 :    \* [^"]+ runs up to the next quote
                IF q4 <= q3 \/ ~MatchLit(t, q4, LIT_ATTR_CLOSE) THEN NoMatch
                ELSE Bind(FindLit(t, q4 + Len(LIT_ATTR_CLOSE), LIT_WRITEFILE_CLOSE), LAMBDA c :
                    IF c = 0 THEN NoMatch
                    ELSE Match(p, c + Len(LIT_WRITEFILE_CLOSE), SubSeq(t, q3, q4 - 1),
                               SubSeq(t, q4 + Len(LIT_ATTR_CLOSE), c - 1))))))

\* r'<DONE>(.*?)</DONE>' tried at index p
done_pattern(t, p) ==
    IF ~MatchLit(t, p, LIT_DONE_OPEN) THEN NoMatch
    ELSE Bind(FindLit(t, p + Len(LIT_DONE_OPEN), LIT_DONE_CLOSE), LAMBDA c :
        IF c = 0 THEN NoMatch
        ELSE Match(p, c + Len(LIT_DONE_CLOSE), SubSeq(t, p + Len(LIT_DONE_OPEN), c - 1), <<>>))

PatternAt(kind, t, p) ==
    CASE kind = "command"   -> command_pattern(t, p)
      [] kind = "legacy"    -> legacy_command_pattern(t, p)
      [] kind = "writefile" -> writefile_pattern(t, p)
      [] kind = "done"      -> done_pattern(t, p)

\* the matches of a pattern at every index of t where one starts
Candidates(kind, t) ==
    {m \in {PatternAt(kind, t, q) : q \in {q \in 1..Len(t) : t[q] = "<"}} : m # NoMatch}

\* re.finditer / re.findall: the non-overlapping matches, scanning from the left:
\* the first candidate at or after index p, then on from where it stops
RECURSIVE Scan(_, _)
Scan(cands, p0) ==
    Bind({m \in cands : m.start + 1 >= p0}, LAMBDA later :
        IF later = {} THEN <<>>
        ELSE Bind(CHOOSE m \in later : \A n \in later : m.start <= n.start, LAMBDA m :
                <<m>> \o Scan(later, m.stop)))

FindIter(kind, t) == Scan(Candidates(kind, t), 1)

\* ------------------------------------------------------------ the decoder
\* tag[0] <= match.start() <= tag[0] + 100
DEDUP_WINDOW == 100

Tag(pos, type, data) == [pos |-> pos, type |-> type, data |-> data]

\* lines 181-186: the parameterized COMMAND markers with a non-empty command
ParamTags(t) ==
    Bind(SelectSeq(FindIter("command", t), LAMBDA m : Strip(m.g2) # <<>>), LAMBDA kept :
        [k \in 1..Len(kept) |->
            Tag(kept[k].start, "command", <<Lower(kept[k].g1) = LIT_TRUE, Strip(kept[k].g2)>>)])

\* the legacy de-duplication test: some command tag collected so far starts at
\* most DEDUP_WINDOW characters before this match and contains its command text
already_captured_near(all_tags, start, cmd) ==
    \E j \in 1..Len(all_tags) :
        /\ all_tags[j].pos <= start
        /\ start <= all_tags[j].pos + DEDUP_WINDOW
        /\ all_tags[j].type = "command"
        /\ IsSubstr(cmd, all_tags[j].data[2])

already_captured(all_tags, start, cmd) == already_captured_near(all_tags, start, cmd)

\* lines 189-197: the legacy COMMAND markers, appended to all_tags one at a time
RECURSIVE LegacyTags(_, _, _)
LegacyTags(all_tags0, ms, k) ==
    Bind(all_tags0, LAMBDA all_tags :
        IF k > Len(ms) THEN all_tags
        ELSE Bind(Strip(ms[k].g1), LAMBDA cmd :
                LegacyTags(
                    IF cmd # <<>> /\ ~already_captured(all_tags, ms[k].start, cmd)
                    THEN Append(all_tags, Tag(ms[k].start, "command", <<TRUE, cmd>>))
                    ELSE all_tags,
                    ms, k + 1)))

\* lines 200-205: the WRITEFILE markers with a non-empty file name
WritefileTags(t) ==
    Bind(SelectSeq(FindIter("writefile", t), LAMBDA m : Strip(m.g1) # <<>>), LAMBDA kept :
        [k \in 1..Len(kept) |->
            Tag(kept[k].start, "writefile", <<Strip(kept[k].g1), Strip(kept[k].g2)>>)])

\* list.sort(key=lambda x: x[0]): stable, ascending by position
SortByPos(s0) ==
    Bind(s0, LAMBDA s :
        LET Rank(a) == Cardinality({b \in 1..Len(s) :
                           \/ s[b].pos < s[a].pos
                           \/ (s[b].pos = s[a].pos /\ b <= a)})
        IN  [k \in 1..Len(s) |-> s[CHOOSE a \in 1..Len(s) : Rank(a) = k]])

DataOf(s0, type) ==
    Bind(SelectSeq(s0, LAMBDA x : x.type = type), LAMBDA kept :
        [k \in 1..Len(kept) |-> kept[k].data])

extract_commands_and_tags(t) ==
    Bind(FindIter("legacy", t), LAMBDA legacy :
    Bind(SortByPos(LegacyTags(ParamTags(t), legacy, 1) \o WritefileTags(t)), LAMBDA all_tags :
    Bind(FindIter("done", t), LAMBDA done_messages :
        [commands_with_output |-> DataOf(all_tags, "command"),
         writefiles           |-> DataOf(all_tags, "writefile"),
         done_messages        |-> SelectSeq([k \in 1..Len(done_messages) |->
                                                Strip(done_messages[k].g1)],
                                            LAMBDA m : m # <<>>),
         is_done              |-> Len(done_messages) > 0,
         ordered_tags         |-> all_tags])))

\* ------------------------------------------------- texts given to the decoder
UP_TRUE == <<"T", "R", "U", "E">>
CMD_LS  == <<"l", "s">>
CMD_L   == <<"l">>
CMD_PS  == <<"p", "s", " ">>
BLANK   == <<" ">>
FILE_F  == <<"f">>

Marker(kind, ret, filename, payload) ==
    [kind |-> kind, ret |-> ret, filename |-> filename, payload |-> payload]

\* the characters a marker is written as
Render(m) ==
    CASE m.kind = "command" ->
            LIT_COMMAND_OPEN \o <<" ">> \o LIT_RETURN_OUTPUT \o m.ret \o LIT_ATTR_CLOSE
                \o m.payload \o LIT_COMMAND_CLOSE
      [] m.kind = "legacy" ->
            LIT_LEGACY_OPEN \o m.payload \o LIT_COMMAND_CLOSE
      [] m.kind = "writefile" ->
            LIT_WRITEFILE_OPEN \o <<" ">> \o LIT_FILENAME \o m.filename \o LIT_ATTR_CLOSE
                \o m.payload \o LIT_WRITEFILE_CLOSE
      [] m.kind = "done" ->
            LIT_DONE_OPEN \o m.payload \o LIT_DONE_CLOSE
      [] m.kind = "plain" -> m.payload

\* free text between markers: one character, or enough to leave the window
Filler(n) == [k \in 1..n |-> "x"]

Payloads == {CMD_LS, CMD_L, CMD_PS, BLANK}

DecoderMarkers ==
    {Marker("command", r, <<>>, p) : r \in {LIT_TRUE, LIT_FALSE, UP_TRUE}, p \in Payloads}
    \cup {Marker("legacy", <<>>, <<>>, p) : p \in Payloads}
    \cup {Marker("writefile", <<>>, f, p) : f \in {FILE_F, BLANK}, p \in {<<>>, CMD_LS}}
    \cup {Marker("done", <<>>, <<>>, <<>>)}
    \cup {Marker("plain", <<>>, <<>>, Filler(n)) : n \in {1, DEDUP_WINDOW}}

NoTags == [commands_with_output |-> <<>>, writefiles |-> <<>>, done_messages |-> <<>>,
           is_done |-> FALSE, ordered_tags |-> <<[pos |-> -1, type |-> "none", data |-> <<>>]>>]

\* ---- decoder harness
NoText ==
    /\ text = <<>>
    /\ markers = <<>>
    /\ tags = NoTags

\* the model writes one more marker (or free text) at the end of its output
WriteMarker ==
    /\ tags = NoTags
    /\ Len(markers) < MaxSegs
    /\ \E m \in DecoderMarkers :
          /\ markers' = Append(markers, m)
          /\ text' = text \o Render(m)
    /\ UNCHANGED <<tags, execVars, loopVars, webVars>>

\* tags = self.extract_commands_and_tags(ai_response)
Extract ==
    /\ tags = NoTags
    /\ tags' = extract_commands_and_tags(text)
    /\ UNCHANGED <<text, markers, execVars, loopVars, webVars>>


\* ------------------------------------------------------------ the executor
dangerous_patterns == <<
    <<"r", "m", " ", "-", "r", "f", " ", "/">>,
    <<"d", "d", " ", "i", "f", "=">>,
    <<"m", "k", "f", "s">>,
    <<"f", "d", "i", "s", "k", " ", "/", "d", "e", "v", "/">>,
    <<"p", "a", "r", "t", "e", "d", " ", "/", "d", "e", "v", "/">>,
    <<"f", "o", "r", "m", "a", "t">>,
    <<"d", "e", "l", " ", "/", "f">>,
    <<">", " ", "/", "d", "e", "v", "/">>,
    <<"c", "h", "m", "o", "d", " ", "7", "7", "7", " ", "/">>>>

\* any(pattern in command.lower() for pattern in dangerous_patterns)
IsDangerous(command) ==
    \E k \in 1..Len(dangerous_patterns) : IsSubstr(dangerous_patterns[k], Lower(command))

MSG_BLOCKED == "Dangerous command blocked: "
MSG_TIMEOUT == "Command timed out after 120 seconds"
MSG_EXCEPTION == "str(e)"

\* what the shell can answer to subprocess.run(command, shell=True, timeout=120):
\* an exit status with the captured streams, TimeoutExpired, or another exception
OUT_HI  == <<"h", "i">>
ERR_MSG == <<"e", "r", "r">>
HostOutcomes ==
    {[kind |-> "exit", returncode |-> 0, stdout |-> OUT_HI, stderr |-> <<>>],
     [kind |-> "exit", returncode |-> 0, stdout |-> <<>>,   stderr |-> <<>>],
     [kind |-> "exit", returncode |-> 1, stdout |-> <<>>,   stderr |-> ERR_MSG],
     [kind |-> "timeout", returncode |-> 0, stdout |-> <<>>, stderr |-> <<>>],
     [kind |-> "exception", returncode |-> 0, stdout |-> <<>>, stderr |-> <<>>]}

\* the try/except around subprocess.run, the same in both agents
subprocess_result(o) ==
    CASE o.kind = "exit" ->
            [success |-> o.returncode = 0, output |-> o.stdout,
             error |-> o.stderr, return_code |-> o.returncode]
      [] o.kind = "timeout" ->
            [success |-> FALSE, output |-> <<>>, error |-> <<MSG_TIMEOUT>>, return_code |-> -1]
      [] o.kind = "exception" ->
            [success |-> FALSE, output |-> <<>>, error |-> <<MSG_EXCEPTION>>, return_code |-> -1]

blocked_result(command) ==
    [success |-> FALSE, output |-> <<>>, error |-> <<MSG_BLOCKED>> \o command, return_code |-> -1]

\* os_ai_agent.OSAgent.execute_command (inherited by web_server.WebOSAgent):
\* the denylist, then the shell. `spawned` records whether subprocess.run was called.
os_execute_command(command, o) ==
    IF IsDangerous(command)
    THEN [result |-> blocked_result(command), spawned |-> FALSE]
    ELSE [result |-> subprocess_result(o), spawned |-> TRUE]

\* web_agent.OSAgent.execute_command: the shell, with no check before it
web_execute_command(command, o) ==
    [result |-> subprocess_result(o), spawned |-> TRUE]

\* ---- the executor's entry points, called directly
MaxCalls == 2

NoCalls == xlog = <<>>

CMD_RM    == <<"r", "m", " ", "-", "r", "f", " ", "/">>
CMD_RM_UP == <<"R", "M", " ", "-", "R", "F", " ", "/">>
CMD_DD    == <<"d", "d", " ", "i", "f", "=", "/", "d", "e", "v", "/", "z", "e", "r", "o">>
ExecCommands == {CMD_LS, CMD_RM, CMD_RM_UP, CMD_DD, BLANK}

Call(entry, command, r) ==
    [entry |-> entry, command |-> command, result |-> r.result, spawned |-> r.spawned]

\* os_ai_agent.interactive_mode / web_server.handle_message: '!command'
\* -> execute_and_show -> execute_command
BangCommand ==
    /\ Len(xlog) < MaxCalls
    /\ \E raw \in ExecCommands, o \in HostOutcomes :
          LET cmd == Strip(raw)
          IN  xlog' = IF cmd # <<>>
                      THEN Append(xlog, Call("bang", cmd, os_execute_command(cmd, o)))
                      ELSE xlog
    /\ UNCHANGED <<decodeVars, loopVars, webVars>>

\* web_agent POST /api/execute -> agent.execute_command
ApiExecute ==
    /\ Len(xlog) < MaxCalls
    /\ \E raw \in ExecCommands, o \in HostOutcomes :
          LET command == Strip(raw)
          IN  xlog' = IF command # <<>>
                      THEN Append(xlog, Call("api_execute", command, web_execute_command(command, o)))
                      ELSE xlog
    /\ UNCHANGED <<decodeVars, loopVars, webVars>>

\* web_agent execute_tool("execute_command", {"command": c}) -> self.execute_command(c)
ToolExecuteCommand ==
    /\ Len(xlog) < MaxCalls
    /\ \E command \in ExecCommands, o \in HostOutcomes :
          xlog' = Append(xlog, Call("tool", command, web_execute_command(command, o)))
    /\ UNCHANGED <<decodeVars, loopVars, webVars>>

\* ------------------------------------------------------ the inline-tag loop
MaxLoopSegs == 2
MaxQueries == 2

NoPrompt == [kind |-> "none", parts |-> <<>>]

NoLoop ==
    /\ agent = "none"
    /\ ipc = "off"
    /\ cursor = 0
    /\ commands_needing_feedback = <<>>
    /\ execution_successful = TRUE
    /\ ran = <<>>
    /\ sent = NoPrompt
    /\ queries = 0

\* what the model may answer in the loop: up to MaxLoopSegs markers
LoopMarkers ==
    {Marker("command", LIT_TRUE, <<>>, CMD_LS),
     Marker("command", LIT_FALSE, <<>>, CMD_LS),
     Marker("command", LIT_FALSE, <<>>, CMD_RM),
     Marker("legacy", <<>>, <<>>, CMD_PS),
     Marker("writefile", <<>>, FILE_F, OUT_HI),
     Marker("done", <<>>, <<>>, <<>>)}

LoopScripts == UNION {[1..n -> LoopMarkers] : n \in 0..MaxLoopSegs}

RECURSIVE RenderAll(_)
RenderAll(ms) == IF ms = <<>> THEN <<>> ELSE Render(Head(ms)) \o RenderAll(Tail(ms))

\* what the shell answers inside the loop
LoopOutcomes == {o \in HostOutcomes : o.kind # "exception" /\ (o.returncode = 0 => o.stdout # <<>>)}

\* execute_with_feedback's output_parts, built from one result
format_feedback(command, result) ==
    <<<<"Command: ", command>>>>
    \o (IF result.success
        THEN IF Strip(result.output) # <<>>
             THEN <<<<"Output:", result.output>>>>
             ELSE <<<<"Command completed successfully (no output)", <<>>>>>>
        ELSE <<<<"Error: ", result.error>>>>
             \o (IF result.output # <<>>
                 THEN <<<<"Additional output: ", result.output>>>>
                 ELSE <<>>))
    \o <<<<"Return code: ", <<result.return_code>>>>>>

\* the two prompt templates of Step 3 and Step 4
MSG_RESULTS == "Here are the results of the commands you requested"
MSG_COMPLETED == "Operations completed successfully"
results_prompt(parts) == [kind |-> MSG_RESULTS, parts |-> parts]
completed_prompt == [kind |-> MSG_COMPLETED, parts |-> <<>>]
user_prompt == [kind |-> "user_input", parts |-> <<>>]

Ran(idx, op, to, r) ==
    [idx |-> idx, op |-> op, to |-> to, spawned |-> r.spawned, result |-> r.result]

InLoop == ipc = "loop" /\ cursor <= Len(tags.ordered_tags)
AfterLoop == ipc = "loop" /\ cursor > Len(tags.ordered_tags)

\* query_llm(prompt) followed by the (recursive) call of
\* process_response_with_iteration on its answer: the answer is any text
QueryAndRecurse(prompt) ==
    /\ queries < MaxQueries
    /\ queries' = queries + 1
    /\ sent' = prompt
    /\ \E ms \in LoopScripts :
          /\ markers' = ms
          /\ text' = RenderAll(ms)
    /\ ipc' = "entered"

\* interactive_mode / handle_message: ai_response = query_llm(user_input), then
\* process_response_with_iteration(ai_response)
UserRequest ==
    /\ ipc = "idle"
    /\ QueryAndRecurse(user_prompt)
    /\ UNCHANGED <<tags, cursor, commands_needing_feedback, execution_successful, ran, agent, execVars, webVars>>

\* tags = self.extract_commands_and_tags(ai_response); commands_needing_feedback = [];
\* execution_successful = True
ExtractTags ==
    /\ ipc = "entered"
    /\ tags' = extract_commands_and_tags(text)
    /\ cursor' = 1
    /\ commands_needing_feedback' = <<>>
    /\ execution_successful' = TRUE
    /\ ran' = <<>>
    /\ ipc' = "loop"
    /\ UNCHANGED <<text, markers, agent, sent, queries, execVars, webVars>>

\* (mutation: a failed command ends the for loop)
RunCommand_AbortsOnFailure ==
    /\ InLoop
    /\ tags.ordered_tags[cursor].type = "command"
    /\ \E o \in LoopOutcomes :
          LET cmd == tags.ordered_tags[cursor].data[2]
              r   == os_execute_command(cmd, o)
          IN  /\ ran' = Append(ran, Ran(cursor, "command", "user", r))
              /\ execution_successful' =
                    IF agent = "cli" /\ ~r.result.success THEN FALSE ELSE execution_successful
              /\ IF ~r.result.success
                 THEN ipc' = "loop" /\ cursor' = Len(tags.ordered_tags) + 1
                 ELSE IF tags.ordered_tags[cursor].data[1]
                      THEN ipc' = "feedback" /\ cursor' = cursor
                      ELSE ipc' = "loop" /\ cursor' = cursor + 1
    /\ UNCHANGED <<decodeVars, agent, commands_needing_feedback, sent, queries, execVars, webVars>>

\* the 'command' branch of the for loop up to `if return_output:`
\* result = self.execute_command(cmd), shown to the user
RunCommand ==
    /\ InLoop
    /\ tags.ordered_tags[cursor].type = "command"
    /\ \E o \in LoopOutcomes :
          LET cmd == tags.ordered_tags[cursor].data[2]
              r   == os_execute_command(cmd, o)
          IN  /\ ran' = Append(ran, Ran(cursor, "command", "user", r))
              /\ execution_successful' =
                    IF agent = "cli" /\ ~r.result.success THEN FALSE ELSE execution_successful
    /\ IF tags.ordered_tags[cursor].data[1]
       THEN ipc' = "feedback" /\ cursor' = cursor
       ELSE ipc' = "loop" /\ cursor' = cursor + 1
    /\ UNCHANGED <<decodeVars, agent, commands_needing_feedback, sent, queries, execVars, webVars>>

\* if return_output: formatted_output = self.execute_with_feedback(cmd), which
\* calls self.execute_command(cmd) itself
ExecuteWithFeedback ==
    /\ ipc = "feedback"
    /\ \E o \in LoopOutcomes :
          LET cmd == tags.ordered_tags[cursor].data[2]
              r   == os_execute_command(cmd, o)
          IN  /\ ran' = Append(ran, Ran(cursor, "command", "model", r))
              /\ commands_needing_feedback' =
                    Append(commands_needing_feedback, format_feedback(cmd, r.result))
    /\ cursor' = cursor + 1
    /\ ipc' = "loop"
    /\ UNCHANGED <<decodeVars, agent, execution_successful, sent, queries, execVars, webVars>>

\* the 'writefile' branch: open(filename, 'w') and write, or an exception caught
WriteFile ==
    /\ InLoop
    /\ tags.ordered_tags[cursor].type = "writefile"
    /\ \E ok \in BOOLEAN :
          LET r == [spawned |-> FALSE,
                    result |-> [success |-> ok, output |-> <<>>,
                                error |-> IF ok THEN <<>> ELSE <<MSG_EXCEPTION>>,
                                return_code |-> 0]]
          IN  /\ ran' = Append(ran, Ran(cursor, "writefile", "user", r))
              /\ execution_successful' =
                    IF agent = "cli" /\ ~ok THEN FALSE ELSE execution_successful
    /\ cursor' = cursor + 1
    /\ UNCHANGED <<decodeVars, agent, ipc, commands_needing_feedback, sent, queries, execVars, webVars>>

\* Step 2: if tags["is_done"]: return
Done ==
    /\ AfterLoop
    /\ tags.is_done
    /\ ipc' = "idle"
    /\ UNCHANGED <<decodeVars, agent, cursor, commands_needing_feedback, execution_successful,
                   ran, sent, queries, execVars, webVars>>

\* (mutation: Step 2's return is skipped when results are waiting for the model)
SendResults_DespiteDone ==
    /\ AfterLoop
    /\ commands_needing_feedback # <<>>
    /\ QueryAndRecurse(results_prompt(commands_needing_feedback))
    /\ UNCHANGED <<tags, cursor, commands_needing_feedback, execution_successful, ran, agent, execVars, webVars>>

\* Step 3: if commands_needing_feedback: query_llm(feedback_prompt) and recurse
SendResults ==
    /\ AfterLoop
    /\ ~tags.is_done
    /\ commands_needing_feedback # <<>>
    /\ QueryAndRecurse(results_prompt(commands_needing_feedback))
    /\ UNCHANGED <<tags, cursor, commands_needing_feedback, execution_successful, ran, agent, execVars, webVars>>

\* (mutation: Step 4 returns without a query)
NotifyCompleted_Returns ==
    /\ AfterLoop
    /\ ~tags.is_done
    /\ commands_needing_feedback = <<>>
    /\ tags.ordered_tags # <<>>
    /\ ipc' = "idle"
    /\ UNCHANGED <<decodeVars, agent, cursor, commands_needing_feedback, execution_successful,
                   ran, sent, queries, execVars, webVars>>

\* Step 4: elif tags["ordered_tags"] and not tags["is_done"]
NotifyCompleted ==
    /\ AfterLoop
    /\ ~tags.is_done
    /\ commands_needing_feedback = <<>>
    /\ tags.ordered_tags # <<>>
    /\ QueryAndRecurse(completed_prompt)
    /\ UNCHANGED <<tags, cursor, commands_needing_feedback, execution_successful, ran, agent, execVars, webVars>>

\* (mutation: a response without tags is answered by another query)
ReturnPlain_Queries ==
    /\ AfterLoop
    /\ ~tags.is_done
    /\ commands_needing_feedback = <<>>
    /\ tags.ordered_tags = <<>>
    /\ QueryAndRecurse(completed_prompt)
    /\ UNCHANGED <<tags, cursor, commands_needing_feedback, execution_successful, ran, agent, execVars, webVars>>

\* no branch applies: the call returns, and so do its callers
ReturnPlain ==
    /\ AfterLoop
    /\ ~tags.is_done
    /\ commands_needing_feedback = <<>>
    /\ tags.ordered_tags = <<>>
    /\ ipc' = "idle"
    /\ UNCHANGED <<decodeVars, agent, cursor, commands_needing_feedback, execution_successful,
                   ran, sent, queries, execVars, webVars>>


\* ------------------------------------- web_agent.py: the tool-call loop
Runs == {1, 2}
MaxTurns == 2
MaxBatch == 2
MaxStops == 2
MaxAsks == 2
MaxHistory == 7
LongMessageTokens == 3000

\* no file is under observation
NoFile == [path |-> "", exists |-> FALSE, content |-> <<>>]
PATH_HELLO == "/tmp/hello.txt"
PATH_PASSWD == "/etc/passwd"
TXT_HI == <<"h", "i">>

\* the "arguments" string of a tool call, as the model wrote it
ARGS_LS      == "{\"command\": \"ls\"}"
ARGS_EMPTY   == "{}"
ARGS_BROKEN  == "{\"command\": "
ARGS_FILE    == "{\"filename\": \"f\"}"
ARGS_WRITE   == "{\"filename\": \"f\", \"operation\": \"write\"}"
ARGS_REPLACE == "{\"filename\": \"f\", \"operation\": \"replace\"}"
ARGS_CHMOD   == "{\"filename\": \"f\", \"operation\": \"chmod\"}"
ARGS_HELLO        == "{\"filename\": \"/tmp/hello.txt\", \"operation\": \"write\", \"content\": \"hi\"}"
ARGS_HELLO_APPEND == "{\"filename\": \"/tmp/hello.txt\", \"operation\": \"append\", \"content\": \"hi\"}"
ARGS_HELLO_READ   == "{\"filename\": \"/tmp/hello.txt\"}"
ToolArguments == {ARGS_LS, ARGS_EMPTY, ARGS_BROKEN}
FileArguments == {ARGS_FILE, ARGS_WRITE, ARGS_REPLACE, ARGS_CHMOD}

\* the dict of an edit_file call on file f
EditDict(operation) ==
    [k \in {"filename", "operation"} |-> IF k = "filename" THEN FILE_F ELSE operation]

\* json.loads(tool_call["function"]["arguments"]): a dict, or JSONDecodeError
json_loads(a) ==
    CASE a = ARGS_LS     -> [decoded |-> TRUE, dict |-> [k \in {"command"} |-> CMD_LS]]
      [] a = ARGS_EMPTY  -> [decoded |-> TRUE, dict |-> <<>>]
      [] a = ARGS_BROKEN -> [decoded |-> FALSE, dict |-> <<>>]
      [] a = ARGS_FILE    -> [decoded |-> TRUE, dict |-> [k \in {"filename"} |-> FILE_F]]
      [] a = ARGS_WRITE   -> [decoded |-> TRUE, dict |-> EditDict("write")]
      [] a = ARGS_REPLACE -> [decoded |-> TRUE, dict |-> EditDict("replace")]
      [] a = ARGS_CHMOD   -> [decoded |-> TRUE, dict |-> EditDict("chmod")]
      [] a = ARGS_HELLO   ->
            [decoded |-> TRUE,
             dict |-> [filename |-> PATH_HELLO, operation |-> "write", content |-> TXT_HI]]
      [] a = ARGS_HELLO_APPEND ->
            [decoded |-> TRUE,
             dict |-> [filename |-> PATH_HELLO, operation |-> "append", content |-> TXT_HI]]
      [] a = ARGS_HELLO_READ -> [decoded |-> TRUE, dict |-> [filename |-> PATH_HELLO]]

ToolCall(a) == [name |-> "execute_command", arguments |-> a]
\* a call of a tool that execute_tool has no branch for
UnknownToolCall == [name |-> "no_such_tool", arguments |-> ARGS_EMPTY]
\* the calls of the file tools on the file under observation
FileToolCalls ==
    {[name |-> "edit_file", arguments |-> ARGS_HELLO],
     [name |-> "edit_file", arguments |-> ARGS_HELLO_APPEND],
     [name |-> "read_file", arguments |-> ARGS_HELLO_READ]}
\* what the model may ask for: file tools where a file is under observation
ToolCalls ==
    IF file = NoFile THEN {ToolCall(a) : a \in ToolArguments} \cup {UnknownToolCall}
    ELSE FileToolCalls
Batches == UNION {[1..n -> ToolCalls] : n \in 0..MaxBatch}

\* what the shell does with a tool's command
ToolOutcomes == {o \in HostOutcomes : o.kind = "exit" /\ (o.stdout # <<>> \/ o.returncode # 0)}

\* the frame of one query_llm call: where it stands, the locals of
\* summarize_context, and the messages of the request being posted
None == [summarized |-> FALSE, messages_summarized |-> 0]
NoFrame == [pc |-> "idle", first_msg |-> <<>>, recent_msgs |-> <<>>, to_summarize |-> 0,
            summarization_info |-> None, messages |-> <<>>, queries |-> 0, failed |-> 0,
            results |-> 0]

NoResponse == [success |-> TRUE, tool_calls |-> <<>>]
NoRun == [pc |-> "off", response |-> NoResponse, k |-> 0, events |-> <<>>,
          executed |-> <<>>, queries |-> 0, resets |-> 0]

NoWeb ==
    /\ stop_requested = FALSE
    /\ conversation_history = <<>>
    /\ run = [r \in Runs |-> NoRun]
    /\ stops = 0
    /\ llm = [r \in Runs |-> NoFrame]
    /\ file = NoFile
    /\ agent_lock = 0

Message(r, role) == [run |-> r, role |-> role]
\* {"role": "tool", "tool_call_id": tool_call["id"], "content": json.dumps(result)}
ToolMessage(r, id) == [run |-> r, role |-> "tool", tool_call_id |-> id]

\* ---- execute_tool
ToolNames == {"execute_command", "read_file", "edit_file", "no_such_tool"}

\* what the host does during a tool: the shell's outcome for a command, and for
\* a file tool whether open() works, raises, or the searched text is absent
FileOutcomes == {"ok", "FileNotFoundError", "no_match"}
ToolHost(tool_name) ==
    IF file # NoFile /\ tool_name \in {"read_file", "edit_file"}
    THEN {[shell |-> CHOOSE o \in ToolOutcomes : o.returncode = 0, file |-> f] :
             f \in {"ok", "PermissionError"}}
    ELSE IF tool_name = "execute_command"
    THEN {[shell |-> o, file |-> "ok"] : o \in ToolOutcomes}
    ELSE IF tool_name \in {"read_file", "edit_file"}
    THEN {[shell |-> CHOOSE o \in ToolOutcomes : o.returncode = 0, file |-> f] : f \in FileOutcomes}
    ELSE {[shell |-> CHOOSE o \in ToolOutcomes : o.returncode = 0, file |-> "ok"]}

Raised == [raised |-> TRUE, value |-> [success |-> "none"]]
Returned(value) == [raised |-> FALSE, value |-> value]
MSG_UNKNOWN_TOOL == "Unknown tool"
MSG_UNKNOWN_OPERATION == "Unknown operation"
MSG_NOT_FOUND == "Search text not found"
ToolSuccess == [success |-> TRUE, output |-> OUT_HI, return_code |-> 0]
ToolFailure(error, return_code) ==
    [success |-> FALSE, error |-> error, return_code |-> return_code]

\* the body of execute_tool's try block: it returns a dict or raises
execute_tool_try(tool_name, arguments, o) ==
    CASE tool_name = "execute_command" ->
            IF "command" \notin DOMAIN arguments THEN Raised
            ELSE Returned(web_execute_command(arguments["command"], o.shell).result)
      [] tool_name = "read_file" ->
            IF "filename" \notin DOMAIN arguments THEN Raised
            ELSE IF o.file = "FileNotFoundError" THEN Raised
            ELSE Returned(ToolSuccess)
      [] tool_name = "edit_file" ->
            IF "filename" \notin DOMAIN arguments \/ "operation" \notin DOMAIN arguments
            THEN Raised
            ELSE IF arguments["operation"] = "write"
            THEN IF o.file = "FileNotFoundError" THEN Raised ELSE Returned(ToolSuccess)
            ELSE IF arguments["operation"] = "replace"
            THEN IF o.file = "FileNotFoundError" THEN Raised
                 ELSE IF o.file = "no_match"
                      THEN Returned([success |-> FALSE, error |-> <<MSG_NOT_FOUND>>,
                                     output |-> <<>>, return_code |-> 1])
                      ELSE Returned(ToolSuccess)
            ELSE Returned(ToolFailure(<<MSG_UNKNOWN_OPERATION>>, 1))
      [] OTHER -> Returned(ToolFailure(<<MSG_UNKNOWN_TOOL>>, -1))

\* (mutation: no except clause around the tool branches)
execute_tool_uncaught(tool_name, arguments, o) == execute_tool_try(tool_name, arguments, o)

\* try: ... except Exception as e: return {"success": False, "error": str(e), ...}
execute_tool(tool_name, arguments, o) ==
    LET tried == execute_tool_try(tool_name, arguments, o)
    IN  IF tried.raised THEN Returned(ToolFailure(<<MSG_EXCEPTION>>, -1)) ELSE tried

\* ------------------------------------------- web_agent.py: the file tools
MaxEdits == 1

\* ---- Python's str and list operations used by the file tools
\* s[p:p+len(sub)] == sub (p is 1-based)
StartsAt(s, p, sub) == p + Len(sub) - 1 =< Len(s) /\ SubSeq(s, p, p + Len(sub) - 1) = sub

\* str.count(sub): occurrences that do not overlap, counted from the left;
\* the empty string is counted once before every character and once at the end
RECURSIVE CountFrom(_, _, _)
CountFrom(s, sub, p) ==
    IF p + Len(sub) - 1 > Len(s) THEN 0
    ELSE IF StartsAt(s, p, sub) THEN 1 + CountFrom(s, sub, p + Len(sub))
    ELSE CountFrom(s, sub, p + 1)
str_count(s, sub) == IF sub = <<>> THEN Len(s) + 1 ELSE CountFrom(s, sub, 1)

\* str.replace(old, new): every occurrence counted by str.count, left to right
RECURSIVE ReplaceFrom(_, _, _, _)
ReplaceFrom(s, old, new, p) ==
    IF p > Len(s) THEN <<>>
    ELSE IF StartsAt(s, p, old) THEN new \o ReplaceFrom(s, old, new, p + Len(old))
    ELSE <<s[p]>> \o ReplaceFrom(s, old, new, p + 1)
RECURSIVE Interleave(_, _)
Interleave(s, new) == IF s = <<>> THEN new ELSE new \o <<Head(s)>> \o Interleave(Tail(s), new)
str_replace(s, old, new) == IF old = <<>> THEN Interleave(s, new) ELSE ReplaceFrom(s, old, new, 1)

\* f.readlines(): the lines with their line ends; the last one may have none
RECURSIVE readlines(_)
readlines(s) ==
    IF s = <<>> THEN <<>>
    ELSE LET ends == {k \in 1..Len(s) : s[k] = "\n"}
         IN  IF ends = {} THEN <<s>>
             ELSE LET k == CHOOSE x \in ends : \A y \in ends : x <= y
                  IN  <<SubSeq(s, 1, k)>> \o readlines(SubSeq(s, k + 1, Len(s)))

\* ''.join(lines), f.writelines(lines)
RECURSIVE join(_)
join(lines) == IF lines = <<>> THEN <<>> ELSE Head(lines) \o join(Tail(lines))

\* an index of a slice: negative ones count from the end, all are clipped
SliceIndex(k, n) == IF k < 0 THEN (IF n + k < 0 THEN 0 ELSE n + k) ELSE IF k > n THEN n ELSE k
\* lines[a:b]
Slice(lines, a, b) == SubSeq(lines, SliceIndex(a, Len(lines)) + 1, SliceIndex(b, Len(lines)))
\* lines.insert(k, x), for 0 <= k <= len(lines)
list_insert(lines, k, x) == SubSeq(lines, 1, k) \o <<x>> \o SubSeq(lines, k + 1, Len(lines))

Max(a, b) == IF a >= b THEN a ELSE b
Min(a, b) == IF a =< b THEN a ELSE b
\* arguments.get(key, default)
Get(arguments, key, default) == IF key \in DOMAIN arguments THEN arguments[key] ELSE default

\* ---- read_file; open(filename, 'r') raises when the file is missing
read_file(f, arguments) ==
    IF ~f.exists THEN Raised
    ELSE IF "start_line" \in DOMAIN arguments
    THEN LET lines == readlines(f.content)
             start_idx == Max(0, arguments["start_line"] - 1)
             selected_lines ==
                 IF "end_line" \in DOMAIN arguments
                 THEN Slice(lines, start_idx, Min(Len(lines), arguments["end_line"]))
                 ELSE Slice(lines, start_idx, Len(lines))
         IN  Returned([success |-> TRUE, output |-> join(selected_lines),
                       lines_read |-> Len(selected_lines), return_code |-> 0])
    ELSE Returned([success |-> TRUE, output |-> f.content, size |-> Len(f.content),
                   return_code |-> 0])

\* ---- edit_file: the result (or an exception) and the file afterwards.
\* perm: whether open() for writing is allowed by the host
Written(f, content) == [f EXCEPT !.exists = TRUE, !.content = content]
\* (mutation: the file is opened for writing before the outcome is known, so
\* a call that returns a failure leaves it empty)
Edited_Truncates(did, f) ==
    [did |-> did,
     file |-> IF "raised" \in DOMAIN did /\ ~did.raised /\ ~did.value.success
              THEN [f EXCEPT !.content = <<>>] ELSE f]
Edited(did, f) == [did |-> did, file |-> f]

\* the three backquotes of a markdown code fence, each written ~ here
FENCE == <<"~", "~", "~">>
\* str.split('\n')
RECURSIVE split_lines(_)
split_lines(s) ==
    LET ends == {k \in 1..Len(s) : s[k] = "\n"}
    IN  IF ends = {} THEN <<s>>
        ELSE LET k == CHOOSE x \in ends : \A y \in ends : x <= y
             IN  <<SubSeq(s, 1, k - 1)>> \o split_lines(SubSeq(s, k + 1, Len(s)))
\* '\n'.join(lines)
RECURSIVE join_lines(_)
join_lines(lines) ==
    IF lines = <<>> THEN <<>>
    ELSE IF Len(lines) = 1 THEN Head(lines)
    ELSE Head(lines) \o <<"\n">> \o join_lines(Tail(lines))
\* the content of a write without its markdown code fence
clean_content(content) ==
    LET cleaned_content == Strip(content)
    IN  IF ~StartsAt(cleaned_content, 1, FENCE) THEN cleaned_content
        ELSE LET lines == Tail(split_lines(cleaned_content))
             IN  join_lines(IF lines # <<>> /\ Strip(lines[Len(lines)]) = FENCE
                            THEN SubSeq(lines, 1, Len(lines) - 1) ELSE lines)

edit_file(f, arguments, perm) ==
    LET operation == arguments["operation"]
    IN  CASE operation = "write" ->
                LET cleaned_content == clean_content(Get(arguments, "content", <<>>))
                IN  IF ~perm THEN Edited(Raised, f)
                    ELSE Edited(Returned([success |-> TRUE, operation |-> "write",
                                          size |-> Len(cleaned_content), return_code |-> 0]),
                                Written(f, cleaned_content))
          [] operation = "append" ->
                LET content == Get(arguments, "content", <<>>)
                IN  IF ~perm THEN Edited(Raised, f)
                    ELSE Edited(Returned([success |-> TRUE, operation |-> "append",
                                          bytes_added |-> Len(content), return_code |-> 0]),
                                Written(f, f.content \o content))
          [] operation = "insert" ->
                LET content0 == Get(arguments, "content", <<>>)
                    line_number == Get(arguments, "line_number", 1)
                    lines == IF f.exists THEN readlines(f.content) ELSE <<>>
                    insert_idx == Max(0, Min(line_number - 1, Len(lines)))
                    content == IF content0 # <<>> /\ content0[Len(content0)] # "\n"
                               THEN content0 \o <<"\n">> ELSE content0
                IN  IF ~perm THEN Edited(Raised, f)
                    ELSE Edited(Returned([success |-> TRUE, operation |-> "insert",
                                          line_number |-> line_number, return_code |-> 0]),
                                Written(f, join(list_insert(lines, insert_idx, content))))
          [] operation = "replace" ->
                LET search == Get(arguments, "search", <<>>)
                    replace == Get(arguments, "replace", <<>>)
                    count == str_count(f.content, search)
                IN  IF ~f.exists THEN Edited(Raised, f)
                    ELSE IF count = 0
                    THEN Edited(Returned([success |-> FALSE, error |-> <<MSG_NOT_FOUND>>,
                                          output |-> <<>>, return_code |-> 1]), f)
                    ELSE IF ~perm THEN Edited(Raised, f)
                    ELSE Edited(Returned([success |-> TRUE, operation |-> "replace",
                                          replacements |-> count, return_code |-> 0]),
                                Written(f, str_replace(f.content, search, replace)))
          [] OTHER -> Edited(Returned(ToolFailure(<<MSG_UNKNOWN_OPERATION>>, 1)), f)

\* execute_tool on a file tool: an exception of the branch becomes a failure
Caught(tried) == IF tried.raised THEN ToolFailure(<<MSG_EXCEPTION>>, -1) ELSE tried.value

\* execute_tool called with any tool name and any decoded argument object
ArgumentObjects == {json_loads(a).dict : a \in {x \in ToolArguments \cup FileArguments : json_loads(x).decoded}}
ExecuteTool ==
    /\ Len(xlog) < MaxCalls
    /\ \E tool_name \in ToolNames, arguments \in ArgumentObjects :
       \E o \in ToolHost(tool_name) :
          xlog' = Append(xlog, [entry |-> "execute_tool", tool_name |-> tool_name,
                                arguments |-> arguments, host |-> o,
                                outcome |-> execute_tool(tool_name, arguments, o)])
    /\ UNCHANGED <<decodeVars, loopVars, webVars>>

\* the arguments read with arguments[...] when the start event is built
StartKeys(tool_name) ==
    CASE tool_name = "execute_command" -> {"command"}
      [] tool_name \in {"read_file", "edit_file"} -> {"filename"}
      [] OTHER -> {}
\* the if/elif chains of start and result events have no else branch
StartEvent(tool_name) ==
    CASE tool_name = "execute_command" -> <<"command_start">>
      [] tool_name = "read_file" -> <<"file_read_start">>
      [] tool_name = "edit_file" -> <<"file_write_start">>
      [] OTHER -> <<>>
ResultEvent(tool_name, result) ==
    CASE tool_name = "execute_command" -> <<"command_result">>
      [] tool_name = "read_file" ->
            IF result.success THEN <<"file_read_success">> ELSE <<"file_read_error">>
      [] tool_name = "edit_file" ->
            IF result.success THEN <<"file_write_success">> ELSE <<"file_write_error">>
      [] OTHER -> <<>>

\* query_llm: the answer of LM Studio is a 200 with any tool calls, or a failure;
\* on a 200 the user and the assistant message are appended
Replies(r) ==
    {[success |-> FALSE, tool_calls |-> <<>>]}
    \cup {[success |-> TRUE, tool_calls |-> b] :
            b \in IF run[r].queries + 1 < MaxTurns THEN Batches ELSE {<<>>}}

\* ---- context size
TARGET_CONTEXT_TOKENS == 12000
SYSTEM_PROMPT_TOKENS == 1400
TOOL_CALL_TOKENS == 100
SUMMARIZE_MIN_MESSAGES == 6
RECENT_MESSAGES == 4

\* estimate_tokens(msg["content"]) plus 100 per tool call; a message written
\* without a "tokens" field has a content shorter than one token
MessageTokens(m) ==
    (IF "tokens" \in DOMAIN m THEN m.tokens ELSE 0)
    + (IF "tool_calls" \in DOMAIN m THEN TOOL_CALL_TOKENS * m.tool_calls ELSE 0)

RECURSIVE SumTokens(_)
SumTokens(history) ==
    IF history = <<>> THEN 0 ELSE MessageTokens(Head(history)) + SumTokens(Tail(history))

get_conversation_tokens == SYSTEM_PROMPT_TOKENS + SumTokens(conversation_history)

\* query_llm calls summarize_context, and summarize_context goes on to ask for
\* a summary: enough tokens, at least 6 messages, a non-empty middle
to_summarize(history) == SubSeq(history, 2, Len(history) - RECENT_MESSAGES)
SummarizationDue ==
    /\ get_conversation_tokens > TARGET_CONTEXT_TOKENS
    /\ Len(conversation_history) >= SUMMARIZE_MIN_MESSAGES
    /\ to_summarize(conversation_history) # <<>>

\* query_llm in one step, for a conversation that needs no summary
query_llm(r, response) ==
    /\ ~SummarizationDue
    /\ conversation_history' =
        IF response.success
        THEN conversation_history \o <<Message(r, "user"), Message(r, "assistant")>>
        ELSE conversation_history

Yield(r, evs) == run[r].events \o evs

\* POST /api/chat: generate_events starts process_request_streaming, which reads
\* the stop flag first
StartRequest(r) ==
    /\ run[r].pc = "idle"
    /\ run' = [run EXCEPT ![r] =
                 IF stop_requested
                 THEN [@ EXCEPT !.pc = "task_stopped", !.events = Yield(r, <<"task_stopped">>)]
                 ELSE [@ EXCEPT !.pc = "query", !.events = Yield(r, <<"ai_thinking">>)]]
    /\ UNCHANGED <<stop_requested, conversation_history, stops, decodeVars, execVars, loopVars, llm, file, agent_lock>>

\* resumed after the task_stopped event: self.stop_requested = False; return
\* (generate_events then sends the end marker)
ResetStop(r) ==
    /\ run[r].pc = "task_stopped"
    /\ stop_requested' = FALSE
    /\ run' = [run EXCEPT ![r] = [@ EXCEPT !.pc = "returned", !.resets = @ + 1,
                                           !.events = Yield(r, <<"end">>)]]
    /\ UNCHANGED <<conversation_history, stops, decodeVars, execVars, loopVars, llm, file, agent_lock>>

\* response = self.query_llm(user_input); if not response["success"]: error, return
InitialQuery(r) ==
    /\ run[r].pc = "query"
    /\ \E response \in Replies(r) :
          /\ query_llm(r, response)
          /\ run' = [run EXCEPT ![r] =
                [@ EXCEPT !.response = response,
                          !.queries = @ + 1,
                          !.pc = IF response.success /\ response.tool_calls # <<>>
                                 THEN "while" ELSE "returned",
                          !.events =
                              IF ~response.success THEN Yield(r, <<"error", "end">>)
                              ELSE IF response.tool_calls # <<>>
                                   THEN Yield(r, <<"tool_calls_planned">>)
                                   ELSE Yield(r, <<"end">>)]]
    /\ UNCHANGED <<stop_requested, stops, decodeVars, execVars, loopVars, llm, file, agent_lock>>

\* (mutation: the while loop does not read the stop flag)
BatchCheck_IgnoresStop(r) ==
    /\ run[r].pc = "while"
    /\ run' = [run EXCEPT ![r] = [@ EXCEPT !.pc = "for", !.k = 1, !.executed = <<>>]]
    /\ UNCHANGED <<stop_requested, conversation_history, stops, decodeVars, execVars, loopVars, llm, file, agent_lock>>

\* while response.get("tool_calls"): if self.stop_requested: task_stopped ...
BatchCheck(r) ==
    /\ run[r].pc = "while"
    /\ run' = [run EXCEPT ![r] =
                 IF stop_requested
                 THEN [@ EXCEPT !.pc = "task_stopped", !.events = Yield(r, <<"task_stopped">>)]
                 ELSE [@ EXCEPT !.pc = "for", !.k = 1, !.executed = <<>>]]
    /\ UNCHANGED <<stop_requested, conversation_history, stops, decodeVars, execVars, loopVars, llm, file, agent_lock>>

FileCall(entry, arguments, perm, result, after) ==
    [entry |-> entry, before |-> file, arguments |-> arguments, perm |-> perm,
     result |-> result, after |-> after]

\* result = self.execute_tool(tool_name, arguments): the result, the file
\* afterwards, and what a spy on the file tools notes
Ran_(value, f, notes) == [value |-> value, file |-> f, notes |-> notes]
RunTool(tool_name, arguments, o) ==
    IF file # NoFile /\ tool_name = "read_file"
    THEN LET result == Caught(read_file(file, arguments))
         IN  Ran_(result, file, <<FileCall("read_file", arguments, TRUE, result, file)>>)
    ELSE IF file # NoFile /\ tool_name = "edit_file"
    THEN LET edited == edit_file(file, arguments, o.file = "ok")
         IN  Ran_(Caught(edited.did), edited.file,
                  <<FileCall("edit_file", arguments, o.file = "ok", Caught(edited.did), edited.file)>>)
    ELSE Ran_(execute_tool(tool_name, arguments, o).value, file, <<>>)

\* where the for loop goes after tool call k
AfterCall(r, evs) ==
    IF run[r].k < Len(run[r].response.tool_calls)
    THEN [run[r] EXCEPT !.k = @ + 1, !.events = Yield(r, evs)]
    ELSE [run[r] EXCEPT !.k = @ + 1, !.events = Yield(r, evs \o <<"ai_thinking">>),
                        !.pc = "next_query"]

\* one pass of `for tool_call in response["tool_calls"]`
ToolStep(r) ==
    /\ run[r].pc = "for"
    /\ LET tool_call == run[r].response.tool_calls[run[r].k]
           tool_name == tool_call.name
           arguments == json_loads(tool_call.arguments)
       IN  IF ~arguments.decoded
           THEN \* except json.JSONDecodeError: error event; continue
                /\ run' = [run EXCEPT ![r] = AfterCall(r, <<"error">>)]
                /\ UNCHANGED <<conversation_history, file, xlog, agent_lock>>
           ELSE IF ~(StartKeys(tool_name) \subseteq DOMAIN arguments.dict)
           THEN \* arguments["command"] raises KeyError, caught in generate_events
                /\ run' = [run EXCEPT ![r] = [@ EXCEPT !.pc = "raised",
                                                       !.events = Yield(r, <<"error">>)]]
                /\ UNCHANGED <<conversation_history, file, xlog, agent_lock>>
           ELSE \E o \in ToolHost(tool_name) :
                  LET done   == RunTool(tool_name, arguments.dict, o)
                      result == done.value
                      after  == AfterCall(r, StartEvent(tool_name)
                                             \o ResultEvent(tool_name, result))
                  IN  /\ run' = [run EXCEPT ![r] =
                            [after EXCEPT !.executed =
                                Append(@, [k |-> run[r].k, success |-> result.success])]]
                      /\ conversation_history' =
                            Append(conversation_history, ToolMessage(r, run[r].k))
                      /\ file' = done.file
                      /\ xlog' = xlog \o done.notes
    /\ UNCHANGED <<stop_requested, stops, decodeVars, loopVars, llm, agent_lock>>

\* response = self.query_llm(""); ...; if not response.get("tool_calls"):
\* task_complete; break
FollowUpQuery(r) ==
    /\ run[r].pc = "next_query"
    /\ \E response \in Replies(r) :
          /\ query_llm(r, response)
          /\ run' = [run EXCEPT ![r] =
                [@ EXCEPT !.response = response,
                          !.queries = @ + 1,
                          !.pc = IF response.tool_calls # <<>> THEN "while" ELSE "returned",
                          !.events =
                              IF response.tool_calls # <<>>
                              THEN Yield(r, <<"tool_calls_planned">>)
                              ELSE Yield(r, <<"task_complete", "end">>)]]
    /\ UNCHANGED <<stop_requested, stops, decodeVars, execVars, loopVars, llm, file, agent_lock>>

\* the same follow-up query once MaxTurns queries were made: the while loop has
\* no iteration limit, so the model may go on asking for tools. From here on
\* the logs (events, conversation_history) keep the latest turn only and the
\* query counter stays at its bound.
FollowUpQueryPastBound(r) ==
    /\ run[r].pc = "next_query"
    /\ run[r].queries + 1 >= MaxTurns
    /\ \E b \in Batches \ {<<>>} :
          run' = [run EXCEPT ![r] =
                    [@ EXCEPT !.response = [success |-> TRUE, tool_calls |-> b],
                              !.pc = "while",
                              !.events = <<"tool_calls_planned">>]]
    /\ conversation_history' = <<Message(r, "user"), Message(r, "assistant")>>
    /\ UNCHANGED <<stop_requested, stops, decodeVars, execVars, loopVars, llm, file, agent_lock>>

\* the client goes away while the generator is suspended at a yield: the
\* generator is closed there and nothing after the yield runs
Disconnect(r) ==
    /\ run[r].pc \in {"task_stopped", "query", "for", "next_query"}
    /\ run' = [run EXCEPT ![r] = [@ EXCEPT !.pc = "closed"]]
    /\ UNCHANGED <<stop_requested, conversation_history, stops, decodeVars, execVars, loopVars, llm, file, agent_lock>>

\* POST /api/stop
ApiStop ==
    /\ \E r \in Runs : run[r].pc # "off"
    /\ stops < MaxStops
    /\ stop_requested' = TRUE
    /\ stops' = stops + 1
    /\ UNCHANGED <<conversation_history, run, decodeVars, execVars, loopVars, llm, file, agent_lock>>

\* POST /api/clear -> agent.clear_conversation()
ApiClear ==
    /\ \E r \in Runs : run[r].pc # "off"
    /\ conversation_history # <<>>
    /\ conversation_history' = <<>>
    /\ UNCHANGED <<stop_requested, run, stops, decodeVars, execVars, loopVars, llm, file, agent_lock>>

\* ---- query_llm step by step, with summarize_context
\* a stored message from before: its index tells it from the others
OldMessage(i, t) == [run |-> 0, role |-> IF i % 2 = 1 THEN "user" ELSE "assistant", n |-> i, tokens |-> t]
History(n, t) == [i \in 1..n |-> OldMessage(i, t)]

SystemPrompt == [run |-> 0, role |-> "system"]
\* "[Previous conversation summary: ...]", written by caller r
SummaryMessage(r) == [run |-> r, role |-> "system", summary |-> TRUE]
Last(history, k) == SubSeq(history, Len(history) - k + 1, Len(history))

\* the CLI agent is one thread; the web agent has one thread per request
Callers == IF agent = "cli" THEN {1} ELSE Runs

\* query_llm up to the summary request: the token check, and summarize_context
\* up to its POST, with first_msg and recent_msgs read from the list
QueryEnter(r) ==
    /\ r \in Callers
    /\ llm[r].pc = "idle"
    /\ llm[r].queries < MaxAsks
    /\ llm' = [llm EXCEPT ![r] =
                 IF agent # "cli" /\ SummarizationDue
                 THEN [@ EXCEPT !.pc = "summarizing",
                                !.first_msg = <<conversation_history[1]>>,
                                !.recent_msgs = Last(conversation_history, RECENT_MESSAGES),
                                !.to_summarize = Len(to_summarize(conversation_history)),
                                !.summarization_info = None]
                 ELSE [@ EXCEPT !.pc = "ready", !.summarization_info = None]]
    /\ UNCHANGED <<conversation_history, stop_requested, run, stops, decodeVars, execVars, loopVars, file, agent_lock>>

\* (mutation: a failed summary request still cuts the list down)
summarize_context_end_cuts(r, ok) ==
    /\ conversation_history' = llm[r].first_msg \o (IF ok THEN <<SummaryMessage(r)>> ELSE <<>>) \o llm[r].recent_msgs
    /\ llm' = [llm EXCEPT ![r] =
                 [@ EXCEPT !.pc = "ready",
                           !.summarization_info =
                               IF ok THEN [summarized |-> TRUE, messages_summarized |-> llm[r].to_summarize]
                                     ELSE None,
                           !.failed = IF ok THEN @ ELSE @ + 1]]

\* the summary request answers: 200 rebuilds the list from the locals, anything
\* else (another status, an exception) returns None
summarize_context_end(r, ok) ==
    /\ conversation_history' =
          IF ok THEN llm[r].first_msg \o <<SummaryMessage(r)>> \o llm[r].recent_msgs
                ELSE conversation_history
    /\ llm' = [llm EXCEPT ![r] =
                 [@ EXCEPT !.pc = "ready",
                           !.summarization_info =
                               IF ok THEN [summarized |-> TRUE, messages_summarized |-> llm[r].to_summarize]
                                     ELSE None,
                           !.failed = IF ok THEN @ ELSE @ + 1]]

SummarizeFinish(r) ==
    /\ llm[r].pc = "summarizing"
    /\ \E ok \in BOOLEAN : summarize_context_end(r, ok)
    /\ UNCHANGED <<stop_requested, run, stops, decodeVars, execVars, loopVars, file, agent_lock>>

\* messages = [system, *conversation_history, user]
BuildMessages(r) == <<SystemPrompt>> \o conversation_history \o <<Message(r, "user")>>

QuerySend(r) ==
    /\ llm[r].pc = "ready"
    /\ llm' = [llm EXCEPT ![r] = [@ EXCEPT !.pc = "posting", !.messages = BuildMessages(r)]]
    /\ UNCHANGED <<conversation_history, stop_requested, run, stops, decodeVars, execVars, loopVars, file, agent_lock>>

\* os_ai_agent: if len(history) > 20: history = history[-20:]
HISTORY_LIMIT == 20
\* (mutation: the cut keeps the oldest messages)
Trim_KeepsOldest(history) ==
    IF Len(history) > HISTORY_LIMIT THEN SubSeq(history, 1, HISTORY_LIMIT) ELSE history
Trim(history) == IF Len(history) > HISTORY_LIMIT THEN Last(history, HISTORY_LIMIT) ELSE history

\* the reply: on 200 the user and assistant messages are stored
QueryRespond(r) ==
    /\ llm[r].pc = "posting"
    /\ \E ok \in BOOLEAN :
          conversation_history' =
              IF ~ok THEN conversation_history
              ELSE IF agent = "cli"
                   THEN Trim(conversation_history \o <<Message(r, "user"), Message(r, "assistant")>>)
                   ELSE conversation_history \o <<Message(r, "user"), Message(r, "assistant")>>
    /\ llm' = [llm EXCEPT ![r] = [NoFrame EXCEPT !.queries = llm[r].queries + 1,
                                                 !.failed = llm[r].failed,
                                                 !.results = llm[r].results]]
    /\ UNCHANGED <<stop_requested, run, stops, decodeVars, execVars, loopVars, file, agent_lock>>

\* process_request_streaming stores a tool result between two queries
StoreToolResult(r) ==
    /\ agent # "cli"
    /\ llm[r].pc = "idle"
    /\ llm[r].results < llm[r].queries
    /\ conversation_history' = Append(conversation_history, ToolMessage(r, llm[r].results + 1))
    /\ llm' = [llm EXCEPT ![r] = [@ EXCEPT !.results = @ + 1]]
    /\ UNCHANGED <<stop_requested, run, stops, decodeVars, execVars, loopVars, file, agent_lock>>

\* os_ai_agent.interactive_mode: 'clear' -> clear_conversation()
ClearCommand ==
    /\ agent = "cli"
    /\ llm[1].pc = "idle"
    /\ conversation_history # <<>>
    /\ conversation_history' = <<>>
    /\ UNCHANGED <<stop_requested, run, stops, decodeVars, execVars, loopVars, llm, file, agent_lock>>

\* ---- the inline WRITEFILE branch of os_ai_agent / web_server
LIT_PYTHON == <<"p", "y", "t", "h", "o", "n">>
DropPrefix(s, prefix) == IF StartsAt(s, 1, prefix) THEN SubSeq(s, Len(prefix) + 1, Len(s)) ELSE s
DropSuffix(s, suffix) ==
    IF Len(s) >= Len(suffix) /\ SubSeq(s, Len(s) - Len(suffix) + 1, Len(s)) = suffix
    THEN SubSeq(s, 1, Len(s) - Len(suffix)) ELSE s
inline_clean(content) ==
    Strip(DropSuffix(DropPrefix(DropPrefix(Strip(content), FENCE \o LIT_PYTHON), FENCE), FENCE))
\* try: open(filename, 'w'); f.write(cleaned_content)  except Exception: error shown
inline_writefile(f, content, perm) ==
    IF ~perm THEN Edited([success |-> FALSE, error |-> <<MSG_EXCEPTION>>], f)
    ELSE Edited([success |-> TRUE, error |-> <<>>], Written(f, inline_clean(content)))

\* ---- the files and the arguments the file tools are called with
FilePaths == {PATH_HELLO, PATH_PASSWD}
TXT_A == <<"a">>
NL == <<"\n">>
FileContents ==
    {<<>>, TXT_A, TXT_A \o NL, TXT_A \o NL \o <<"b">>, TXT_A \o NL \o <<"b">> \o NL,
     <<"a", "a">>, <<"a", "a", "a">>, <<"a", "b", "a", "b">>}
Files ==
    {[path |-> p, exists |-> FALSE, content |-> <<>>] : p \in FilePaths}
    \cup {[path |-> p, exists |-> TRUE, content |-> c] : p \in FilePaths, c \in FileContents}
NewContents == {<<>>, TXT_HI, <<" ">> \o TXT_HI \o NL, <<"x">> \o NL \o <<"y">>,
                FENCE \o NL \o TXT_HI \o NL \o FENCE}
SearchTexts == {<<>>, TXT_A, <<"a", "a">>, <<"a", "b">>, <<"b">>, <<"z">>}
ReplaceTexts == {<<>>, TXT_A, <<"a", "a">>, <<"b">>}
LineNumbers == (0 - 2)..4

ReadArguments ==
    {[filename |-> file.path]}
    \cup {[filename |-> file.path, start_line |-> a] : a \in LineNumbers}
    \cup {[filename |-> file.path, start_line |-> a, end_line |-> b] : a, b \in LineNumbers}
    \cup {[filename |-> file.path, end_line |-> b] : b \in LineNumbers}
EditArguments ==
    {[filename |-> file.path, operation |-> op, content |-> c] :
        op \in {"write", "append"}, c \in NewContents}
    \cup {[filename |-> file.path, operation |-> "insert", content |-> c, line_number |-> n] :
        c \in NewContents, n \in LineNumbers}
    \cup {[filename |-> file.path, operation |-> "insert", content |-> c] : c \in NewContents}
    \cup {[filename |-> file.path, operation |-> "replace", search |-> x, replace |-> y] :
        x \in SearchTexts, y \in ReplaceTexts}

\* execute_tool("read_file", arguments)
ReadFile ==
    /\ Len(xlog) < MaxEdits
    /\ \E arguments \in ReadArguments :
          xlog' = Append(xlog, FileCall("read_file", arguments, TRUE,
                                        Caught(read_file(file, arguments)), file))
    /\ UNCHANGED <<decodeVars, loopVars, webVars>>

\* execute_tool("edit_file", arguments)
EditFile ==
    /\ Len(xlog) < MaxEdits
    /\ \E arguments \in EditArguments, perm \in BOOLEAN :
          LET edited == edit_file(file, arguments, perm)
          IN  /\ xlog' = Append(xlog, FileCall("edit_file", arguments, perm,
                                               Caught(edited.did), edited.file))
              /\ file' = edited.file
    /\ UNCHANGED <<decodeVars, loopVars, stop_requested, conversation_history, run, stops, llm, agent_lock>>

\* the 'writefile' branch of the inline loop on a decoded (filename, content)
InlineWritefile ==
    /\ Len(xlog) < MaxEdits
    /\ \E content \in NewContents, perm \in BOOLEAN :
          LET edited == inline_writefile(file, content, perm)
          IN  /\ xlog' = Append(xlog, FileCall("writefile",
                                               [filename |-> file.path, content |-> content],
                                               perm, edited.did, edited.file))
              /\ file' = edited.file
    /\ UNCHANGED <<decodeVars, loopVars, stop_requested, conversation_history, run, stops, llm, agent_lock>>

\* --------------------------------------------------------- specifications
\* the decoder on its own: a text is written marker by marker, then decoded
InitDecode == NoText /\ NoCalls /\ NoLoop /\ NoWeb
DecodeNext == WriteMarker \/ Extract
SpecDecode == InitDecode /\ [][DecodeNext]_vars

\* the executor's entry points, called in any order
InitExec == NoText /\ NoCalls /\ NoLoop /\ NoWeb
ExecNext == BangCommand \/ ApiExecute \/ ToolExecuteCommand
SpecExec == InitExec /\ [][ExecNext]_vars

\* the inline-tag loop of either agent, from an idle agent
InitLoop ==
    /\ NoText /\ NoCalls /\ NoWeb
    /\ agent \in {"cli", "socket"}
    /\ ipc = "idle"
    /\ cursor = 0
    /\ commands_needing_feedback = <<>>
    /\ execution_successful = TRUE
    /\ ran = <<>>
    /\ sent = NoPrompt
    /\ queries = 0
LoopNext ==
    \/ UserRequest \/ ExtractTags \/ RunCommand \/ ExecuteWithFeedback \/ WriteFile
    \/ Done \/ SendResults \/ NotifyCompleted \/ ReturnPlain
SpecLoop == InitLoop /\ [][LoopNext]_vars

\* the /api/chat, /api/stop and /api/clear routes on the single global agent of
\* web_agent.py (app.run(threaded=True): one thread per request)
IdleRuns == [r \in Runs |-> [NoRun EXCEPT !.pc = "idle"]]
InitWeb ==
    /\ NoText /\ NoCalls /\ NoLoop
    /\ stop_requested = FALSE
    /\ conversation_history = <<>>
    /\ run = IdleRuns
    /\ stops = 0
    /\ llm = [r \in Runs |-> NoFrame]
    /\ file = NoFile
    /\ agent_lock = 0
WebNext ==
    \/ \E r \in Runs :
          \/ StartRequest(r) \/ ResetStop(r) \/ InitialQuery(r) \/ BatchCheck(r)
          \/ ToolStep(r) \/ FollowUpQuery(r) \/ Disconnect(r)
    \/ ApiStop
    \/ ApiClear
SpecWeb == InitWeb /\ [][WebNext]_vars

\* one /api/chat request with a model that is free to ask for tools for ever;
\* the request's own steps are fair (every query and every tool returns), the
\* client's and the user's (disconnect, stop, clear) are not
LiveRuns == {1}
RunStep(r) ==
    \/ StartRequest(r) \/ ResetStop(r) \/ InitialQuery(r) \/ BatchCheck(r)
    \/ ToolStep(r) \/ FollowUpQuery(r) \/ FollowUpQueryPastBound(r)
InitLive ==
    /\ NoText /\ NoCalls /\ NoLoop
    /\ stop_requested = FALSE
    /\ conversation_history = <<>>
    /\ run = IdleRuns
    /\ stops = 0
    /\ llm = [r \in Runs |-> NoFrame]
    /\ file = NoFile
    /\ agent_lock = 0
LiveNext ==
    \/ \E r \in LiveRuns :
          \/ StartRequest(r) \/ ResetStop(r) \/ InitialQuery(r) \/ BatchCheck(r)
          \/ ToolStep(r) \/ FollowUpQuery(r) \/ FollowUpQueryPastBound(r) \/ Disconnect(r)
    \/ ApiStop
    \/ ApiClear
SpecLive == InitLive /\ [][LiveNext]_vars /\ \A r \in LiveRuns : WF_vars(RunStep(r))

\* the request is over: it returned, was closed by the client, or raised
Ended(r) == run[r].pc \in {"returned", "closed", "raised"}

\* ---- requests, one at a time, on a conversation that may need a summary
\* what a spy on summarize_context notes when it returns its info dict
SummaryNote(r) == [entry |-> "summarize_context", run |-> r]

\* the assistant message as query_llm stores it: with the tool calls (their ids
\* are 1..n here) when the model asked for any
AssistantMessage(r, response) ==
    IF response.tool_calls # <<>>
    THEN [run |-> r, role |-> "assistant", tool_calls |-> Len(response.tool_calls)]
    ELSE Message(r, "assistant")

\* query_llm of the tool-call agent in one step: the token check,
\* summarize_context (its request answers 200 or not), then the chat request
query_llm_summarizing(r, response, ok) ==
    LET summarized == SummarizationDue /\ ok
        history == IF summarized
                   THEN <<conversation_history[1]>> \o <<SummaryMessage(r)>>
                            \o Last(conversation_history, RECENT_MESSAGES)
                   ELSE conversation_history
    IN  /\ llm' = [llm EXCEPT ![r] =
                     [@ EXCEPT !.messages = <<SystemPrompt>> \o history \o <<Message(r, "user")>>]]
        /\ conversation_history' =
              IF response.success
              THEN history \o <<Message(r, "user"), AssistantMessage(r, response)>>
              ELSE history
        /\ xlog' = IF summarized THEN Append(xlog, SummaryNote(r)) ELSE xlog

\* response["summarization"] of a successful response is the info dict
SummarizationOf(response, ok) == response.success /\ SummarizationDue /\ ok

\* response = self.query_llm(user_input); error and return on failure; then
\* context_summarized, tool_calls_planned
InitialQueryWithSummary(r) ==
    /\ run[r].pc = "query"
    /\ \E response \in Replies(r), ok \in BOOLEAN :
          /\ query_llm_summarizing(r, response, ok)
          /\ run' = [run EXCEPT ![r] =
                [@ EXCEPT !.response = response,
                          !.queries = @ + 1,
                          !.pc = IF response.success /\ response.tool_calls # <<>>
                                 THEN "while" ELSE "returned",
                          !.events =
                              IF ~response.success THEN Yield(r, <<"error", "end">>)
                              ELSE Yield(r, (IF SummarizationOf(response, ok)
                                             THEN <<"context_summarized">> ELSE <<>>)
                                            \o (IF response.tool_calls # <<>>
                                                THEN <<"tool_calls_planned">>
                                                ELSE <<"end">>))]]
    /\ UNCHANGED <<stop_requested, stops, decodeVars, loopVars, file, agent_lock>>

\* response = self.query_llm(""); usage_stats, tool_calls_planned, ai_response;
\* if not response.get("tool_calls"): task_complete; break
FollowUpQueryWithSummary(r) ==
    /\ run[r].pc = "next_query"
    /\ \E response \in Replies(r), ok \in BOOLEAN :
          /\ query_llm_summarizing(r, response, ok)
          /\ run' = [run EXCEPT ![r] =
                [@ EXCEPT !.response = response,
                          !.queries = @ + 1,
                          !.pc = IF response.tool_calls # <<>> THEN "while" ELSE "returned",
                          !.events =
                              IF response.tool_calls # <<>>
                              THEN Yield(r, <<"tool_calls_planned">>)
                              ELSE Yield(r, <<"task_complete", "end">>)]]
    /\ UNCHANGED <<stop_requested, stops, decodeVars, loopVars, file, agent_lock>>

MaxOld == 7
InitReport ==
    /\ NoText /\ NoCalls /\ NoLoop
    /\ stop_requested = FALSE
    /\ \E n \in {0} \cup ((MaxOld - 2)..MaxOld) :
          conversation_history = History(n, LongMessageTokens)
    /\ run = IdleRuns
    /\ stops = 0
    /\ llm = [r \in Runs |-> NoFrame]
    /\ file = NoFile
    /\ agent_lock = 0
\* the requests come one after the other; a stop may be requested at any time
SubmitRequest(r) ==
    /\ \A q \in Runs : q < r => Ended(q)
    /\ StartRequest(r)
ReportNext ==
    \/ \E r \in Runs :
          \/ SubmitRequest(r) \/ ResetStop(r) \/ InitialQueryWithSummary(r)
          \/ BatchCheck(r) \/ ToolStep(r) \/ FollowUpQueryWithSummary(r)
    \/ ApiStop
SpecReport == InitReport /\ [][ReportNext]_vars

\* ---- web_server.py: handle_message, one thread per user_message event
\* the positions of a handler between `with agent_lock:` and its end
InsideLock == {"inside", "iterating", "handled"}

\* a user_message event with a non-empty message reaches `with agent_lock:`
HandleMessage(h) ==
    /\ run[h].pc = "idle"
    /\ run' = [run EXCEPT ![h] = [@ EXCEPT !.pc = "waiting"]]
    /\ UNCHANGED <<stop_requested, conversation_history, stops, decodeVars, execVars, loopVars,
                   llm, file, agent_lock>>

\* (mutation: the handler enters without waiting for the lock)
Acquire_Unlocked(h) ==
    /\ run[h].pc = "waiting"
    /\ agent_lock' = h
    /\ run' = [run EXCEPT ![h] = [@ EXCEPT !.pc = "inside"]]
    /\ UNCHANGED <<stop_requested, conversation_history, stops, decodeVars, execVars, loopVars,
                   llm, file>>

\* with agent_lock: the thread goes on when the lock is free, and takes it
Acquire(h) ==
    /\ run[h].pc = "waiting"
    /\ agent_lock = 0
    /\ agent_lock' = h
    /\ run' = [run EXCEPT ![h] = [@ EXCEPT !.pc = "inside"]]
    /\ UNCHANGED <<stop_requested, conversation_history, stops, decodeVars, execVars, loopVars,
                   llm, file>>

\* 'clear': agent.clear_conversation(); emit; return
ClearMessage(h) ==
    /\ run[h].pc = "inside"
    /\ conversation_history' = <<>>
    /\ run' = [run EXCEPT ![h] = [@ EXCEPT !.pc = "handled", !.events = Yield(h, <<"info">>)]]
    /\ UNCHANGED <<stop_requested, stops, decodeVars, execVars, loopVars, llm, file, agent_lock>>

\* ai_response = agent.query_llm(user_input);
\* agent.process_response_with_iteration(ai_response)
AskModel(h) ==
    /\ run[h].pc = "inside"
    /\ QueryAndRecurse(user_prompt)
    /\ run' = [run EXCEPT ![h] = [@ EXCEPT !.pc = "iterating", !.queries = @ + 1,
                                           !.events = Yield(h, <<"thinking">>)]]
    /\ UNCHANGED <<tags, cursor, commands_needing_feedback, execution_successful, ran, agent,
                   execVars, stop_requested, conversation_history, stops, llm, file, agent_lock>>

\* except Exception as e: emit error; the with block is left and the lock
\* released
MessageRaises(h) ==
    /\ run[h].pc = "iterating"
    /\ ipc # "idle"
    /\ ipc' = "idle"
    /\ agent_lock' = 0
    /\ run' = [run EXCEPT ![h] = [@ EXCEPT !.pc = "returned", !.events = Yield(h, <<"error">>)]]
    /\ UNCHANGED <<decodeVars, execVars, agent, cursor, commands_needing_feedback,
                   execution_successful, ran, sent, queries,
                   stop_requested, conversation_history, stops, llm, file>>

\* the handler returns: the with block is left and the lock released
MessageReturns(h) ==
    /\ \/ run[h].pc = "handled"
       \/ run[h].pc = "iterating" /\ ipc = "idle"
    /\ agent_lock' = 0
    /\ run' = [run EXCEPT ![h] = [@ EXCEPT !.pc = "returned"]]
    /\ UNCHANGED <<stop_requested, conversation_history, stops, decodeVars, execVars, loopVars,
                   llm, file>>

InitSocket ==
    /\ NoText /\ NoCalls
    /\ agent = "socket"
    /\ ipc = "idle"
    /\ cursor = 0
    /\ commands_needing_feedback = <<>>
    /\ execution_successful = TRUE
    /\ ran = <<>>
    /\ sent = NoPrompt
    /\ queries = 0
    /\ stop_requested = FALSE
    /\ conversation_history = History(2, 0)
    /\ run = IdleRuns
    /\ stops = 0
    /\ llm = [r \in Runs |-> NoFrame]
    /\ file = NoFile
    /\ agent_lock = 0
SocketNext ==
    \/ \E h \in Runs :
          \/ HandleMessage(h) \/ Acquire(h) \/ ClearMessage(h) \/ AskModel(h)
          \/ MessageRaises(h) \/ MessageReturns(h)
    \/ ExtractTags \/ RunCommand \/ ExecuteWithFeedback \/ WriteFile
    \/ Done \/ SendResults \/ NotifyCompleted \/ ReturnPlain
SpecSocket == InitSocket /\ [][SocketNext]_vars

\* ------------------------------------ os_ai_agent.py: a model query that fails
\* query_llm returns a string on failure too: the status and the body of a
\* non-200 answer, or the text of the exception
LIT_API_ERROR == <<"L", "M", " ", "S", "t", "u", "d", "i", "o", " ", "A", "P", "I", " ", "e", "r", "r", "o", "r", ":", " ">>
LIT_STATUS_500 == <<"5", "0", "0">>
LIT_DASH == <<" ", "-", " ">>
LIT_CONNECTION_ERROR == <<"C", "o", "n", "n", "e", "c", "t", "i", "o", "n", " ", "e", "r", "r", "o", "r", " ", "t", "o", " ", "L", "M", " ", "S", "t", "u", "d", "i", "o", ":", " ">>
LIT_REFUSED == <<"r", "e", "f", "u", "s", "e", "d">>

\* what a failing server or network hands back: any body, or an exception
QueryFailures ==
    {[kind |-> "status", body |-> ms] : ms \in LoopScripts}
    \cup {[kind |-> "connection", body |-> <<>>]}

failure_text(f) ==
    IF f.kind = "status"
    THEN LIT_API_ERROR \o LIT_STATUS_500 \o LIT_DASH \o RenderAll(f.body)
    ELSE LIT_CONNECTION_ERROR \o LIT_REFUSED

\* interactive_mode: ai_response = self.query_llm(user_input) where the query
\* fails, then self.process_response_with_iteration(ai_response)
FailedRequest ==
    /\ ipc = "idle"
    /\ queries < MaxQueries
    /\ queries' = queries + 1
    /\ sent' = user_prompt
    /\ \E f \in QueryFailures :
          /\ markers' = f.body
          /\ text' = failure_text(f)
    /\ ipc' = "entered"
    /\ UNCHANGED <<tags, cursor, commands_needing_feedback, execution_successful, ran, agent, execVars, webVars>>

\* the command line agent, every request of which meets a failing query
InitFailure ==
    /\ NoText /\ NoCalls /\ NoWeb
    /\ agent = "cli"
    /\ ipc = "idle"
    /\ cursor = 0
    /\ commands_needing_feedback = <<>>
    /\ execution_successful = TRUE
    /\ ran = <<>>
    /\ sent = NoPrompt
    /\ queries = 0
FailureNext ==
    \/ FailedRequest \/ ExtractTags \/ RunCommand \/ ExecuteWithFeedback \/ WriteFile
    \/ Done \/ SendResults \/ NotifyCompleted \/ ReturnPlain
SpecFailure == InitFailure /\ [][FailureNext]_vars


\* --------------------------------------- query_llm: what the chat request answers
\* the request raises, answers another status, or answers 200 with a body that
\* is not JSON, whose message is null, whose usage is null, or that is as expected
ChatReplies == {"refused", "status_500", "not_json", "message_null", "usage_null", "ok"}

\* the statements of query_llm after the POST, in their order, up to the first
\* one that raises: what has been stored by then.  os_ai_agent reads
\* result["choices"][0]["message"]["content"] before it stores anything and never
\* reads usage; web_agent stores the user message, then calls message.get, then
\* stores the assistant message, then calls usage.get
stored_by(r, reply) ==
    IF agent = "cli"
    THEN IF reply \in {"usage_null", "ok"}
         THEN <<Message(r, "user"), Message(r, "assistant")>> ELSE <<>>
    ELSE IF reply = "message_null" THEN <<Message(r, "user")>>
    ELSE IF reply \in {"usage_null", "ok"}
         THEN <<Message(r, "user"), Message(r, "assistant")>> ELSE <<>>

\* the call returns the answer (os_ai_agent) or success: True (web_agent)
succeeds(reply) ==
    IF agent = "cli" THEN reply \in {"usage_null", "ok"} ELSE reply = "ok"

QueryOutcome(r, reply) ==
    [entry |-> "query_llm", run |-> r, reply |-> reply, success |-> succeeds(reply)]

\* the reply, statement by statement
QueryReply(r) ==
    /\ llm[r].pc = "posting"
    /\ \E reply \in ChatReplies :
          /\ conversation_history' =
                IF agent = "cli" /\ stored_by(r, reply) # <<>>
                THEN Trim(conversation_history \o stored_by(r, reply))
                ELSE conversation_history \o stored_by(r, reply)
          /\ xlog' = Append(xlog, QueryOutcome(r, reply))
    /\ llm' = [llm EXCEPT ![r] = [NoFrame EXCEPT !.queries = llm[r].queries + 1,
                                                 !.failed = llm[r].failed,
                                                 !.results = llm[r].results]]
    /\ UNCHANGED <<stop_requested, run, stops, decodeVars, loopVars, file, agent_lock>>

\* either agent, asked a few times on a short or a full conversation
InitReply ==
    /\ NoText /\ NoCalls
    /\ agent \in {"cli", "none"}
    /\ ipc = "off"
    /\ cursor = 0
    /\ commands_needing_feedback = <<>>
    /\ execution_successful = TRUE
    /\ ran = <<>>
    /\ sent = NoPrompt
    /\ queries = 0
    /\ stop_requested = FALSE
    /\ run = IF agent = "cli" THEN [r \in Runs |-> NoRun] ELSE IdleRuns
    /\ stops = 0
    /\ llm = [r \in Runs |-> NoFrame]
    /\ file = NoFile
    /\ agent_lock = 0
    /\ \E n \in IF agent = "cli" THEN {0, HISTORY_LIMIT - 2, HISTORY_LIMIT} ELSE {0, SUMMARIZE_MIN_MESSAGES} :
          conversation_history = History(n, IF agent = "cli" THEN 0 ELSE LongMessageTokens)
ReplyNext ==
    \/ \E r \in Runs : QueryEnter(r) \/ SummarizeFinish(r) \/ QuerySend(r) \/ QueryReply(r)
    \/ ApiClear
    \/ ClearCommand
SpecReply == InitReply /\ [][ReplyNext]_vars


\* execute_tool on its own
InitTools == NoText /\ NoCalls /\ NoLoop /\ NoWeb
ToolsNext == ExecuteTool
SpecTools == InitTools /\ [][ToolsNext]_vars

\* query_llm on a conversation that already holds messages: the web agent's
\* request threads (agent = "none") or the CLI agent
InitContext ==
    /\ NoText /\ NoCalls
    /\ agent \in {"cli", "none"}
    /\ ipc = "off"
    /\ cursor = 0
    /\ commands_needing_feedback = <<>>
    /\ execution_successful = TRUE
    /\ ran = <<>>
    /\ sent = NoPrompt
    /\ queries = 0
    /\ stop_requested = FALSE
    /\ run = IF agent = "cli" THEN [r \in Runs |-> NoRun] ELSE IdleRuns
    /\ stops = 0
    /\ llm = [r \in Runs |-> NoFrame]
    /\ file = NoFile
    /\ agent_lock = 0
    /\ \E n \in IF agent = "cli" THEN {0, HISTORY_LIMIT - 2, HISTORY_LIMIT} ELSE 0..MaxHistory :
       \E t \in IF agent = "cli" THEN {0} ELSE {0, LongMessageTokens} :
          conversation_history = History(n, t)
ContextNext ==
    \/ \E r \in Runs : \/ QueryEnter(r) \/ SummarizeFinish(r) \/ QuerySend(r)
                       \/ QueryRespond(r) \/ StoreToolResult(r)
    \/ ApiClear
    \/ ClearCommand
SpecContext == InitContext /\ [][ContextNext]_vars

\* the file tools and the inline file write on one file of the host
InitFiles ==
    /\ NoText /\ NoCalls /\ NoLoop
    /\ stop_requested = FALSE
    /\ conversation_history = <<>>
    /\ run = [r \in Runs |-> NoRun]
    /\ stops = 0
    /\ llm = [r \in Runs |-> NoFrame]
    /\ file \in Files
    /\ agent_lock = 0
FilesNext == ReadFile \/ EditFile \/ InlineWritefile
SpecFiles == InitFiles /\ [][FilesNext]_vars

\* one /api/chat request whose model works on /tmp/hello.txt with the file tools
InitHello ==
    /\ NoText /\ NoCalls /\ NoLoop
    /\ stop_requested = FALSE
    /\ conversation_history = <<>>
    /\ run = IdleRuns
    /\ stops = 0
    /\ llm = [r \in Runs |-> NoFrame]
    /\ file \in {f \in Files : f.path = PATH_HELLO}
    /\ agent_lock = 0
HelloNext ==
    \/ \E r \in LiveRuns :
          \/ StartRequest(r) \/ ResetStop(r) \/ InitialQuery(r) \/ BatchCheck(r)
          \/ ToolStep(r) \/ FollowUpQuery(r)
    \/ ApiStop
SpecHello == InitHello /\ [][HelloNext]_vars

\* one turn of the inline-tag loop on a response that holds a DONE marker:
\* process_response_with_iteration from its entry to Step 2
MaxTurnSegs == 3
TurnMarkers ==
    {Marker("command", LIT_FALSE, <<>>, CMD_LS),
     Marker("legacy", <<>>, <<>>, CMD_PS),
     Marker("writefile", <<>>, FILE_F, OUT_HI),
     Marker("done", <<>>, <<>>, <<>>)}
DoneScripts ==
    {ms \in UNION {[1..n -> TurnMarkers] : n \in 1..MaxTurnSegs} :
        \E k \in DOMAIN ms : ms[k].kind = "done"}
InitTurn ==
    /\ NoCalls /\ NoWeb
    /\ agent \in {"cli", "socket"}
    /\ markers \in DoneScripts
    /\ text = RenderAll(markers)
    /\ tags = NoTags
    /\ ipc = "entered"
    /\ cursor = 0
    /\ commands_needing_feedback = <<>>
    /\ execution_successful = TRUE
    /\ ran = <<>>
    /\ sent = user_prompt
    /\ queries = 1
TurnNext == ExtractTags \/ RunCommand \/ ExecuteWithFeedback \/ WriteFile \/ Done
SpecTurn == InitTurn /\ [][TurnNext]_vars

\* either kind of agent at work: an inline-tag agent, or the tool-call agent
InitAgents == InitLoop \/ InitWeb
AgentsNext == LoopNext \/ WebNext
SpecAgents == InitAgents /\ [][AgentsNext]_vars

\* ------------------------------------------------------------------ claims

IsActionMarker(m) == m.kind \in {"command", "legacy", "writefile"}

\* the payload of an action marker is not empty: a command text, or a file name
\* and a content
HasPayload(m) ==
    /\ Strip(m.payload) # <<>>
    /\ m.kind = "writefile" => Strip(m.filename) # <<>>

\* the entry of ordered_tags that marker m stands for
SameAction(tag, m) ==
    \/ /\ m.kind = "command"
       /\ tag.type = "command"
       /\ tag.data = <<Lower(m.ret) = LIT_TRUE, Strip(m.payload)>>
    \/ /\ m.kind = "legacy"
       /\ tag.type = "command"
       /\ tag.data = <<TRUE, Strip(m.payload)>>
    \/ /\ m.kind = "writefile"
       /\ tag.type = "writefile"
       /\ tag.data = <<Strip(m.filename), Strip(m.payload)>>

\* C1: for a text written from N action markers with non-empty payloads, in any
\* order, ordered_tags has exactly N entries, the k-th being the k-th marker.
C1_DecodeKeepsCountAndOrder ==
    LET acts == SelectSeq(markers, IsActionMarker)
    IN  (tags # NoTags /\ \A k \in 1..Len(acts) : HasPayload(acts[k]))
        => /\ Len(tags.ordered_tags) = Len(acts)
           /\ \A k \in 1..Len(acts) : SameAction(tags.ordered_tags[k], acts[k])

\* C2: a call of execute_command, through any entry point, with a command that
\* contains a denylisted pattern (ignoring case) returns a failure whose error
\* names the command, and does not reach subprocess.run.
C2_DenylistedNeverSpawned ==
    \A k \in 1..Len(xlog) :
        IsDangerous(xlog[k].command)
        => /\ ~xlog[k].result.success
           /\ IsSubstr(xlog[k].command, xlog[k].result.error)
           /\ ~xlog[k].spawned

\* ---- the inline-tag loop
HasDone(ms) == \E k \in 1..Len(ms) : ms[k].kind = "done"

\* C3: once the response of a turn holds a DONE marker, no step of that run
\* issues a model query, also when results are waiting in
\* commands_needing_feedback: they are never sent.
C3_DoneStopsQuerying ==
    [][(ipc # "idle" /\ HasDone(markers)) => (queries' = queries /\ sent' = sent)]_vars

\* a turn with a DONE marker and a command that asked for its output has returned
C3_Witness ==
    /\ ipc = "idle"
    /\ HasDone(markers)
    /\ tags.is_done
    /\ commands_needing_feedback # <<>>

RunsOf(k) == {j \in 1..Len(ran) : ran[j].idx = k}

\* C4: every decoded action of a turn reaches the host once and has one result:
\* none is run twice, all have run when the for loop ends, and what went to the
\* model for a command is what was shown to the user.
C4_EachActionRunOnce ==
    (ipc \in {"loop", "feedback"})
    => \A k \in 1..Len(tags.ordered_tags) :
          /\ Cardinality(RunsOf(k)) <= 1
          /\ AfterLoop => Cardinality(RunsOf(k)) = 1
          /\ \A a, b \in RunsOf(k) : ran[a].result = ran[b].result

\* the prompt templates the source calls neutral
NeutralTemplates == {MSG_RESULTS, MSG_COMPLETED}
EscalationFramed(prompt) == prompt.kind \notin NeutralTemplates
SomeActionFailed == \E j \in 1..Len(ran) : ~ran[j].result.success

\* C5: the prompt sent after a turn is escalation-framed exactly when some action
\* of that turn failed, and neutral only when all succeeded.
C5_FailuresEscalate ==
    (ipc = "entered" /\ sent.kind # "user_input")
    => (EscalationFramed(sent) <=> SomeActionFailed)

\* ---- the tool-call loop
Has(events, type) == \E j \in 1..Len(events) : events[j] = type
Count(events, type) == Cardinality({j \in 1..Len(events) : events[j] = type})

\* C6: a run whose model query failed, the first or a later one, has reported
\* an error event, has emitted no task_complete and has returned.
C6_QueryFailureEndsInFailed ==
    \A r \in Runs :
        ~run[r].response.success
        => /\ Has(run[r].events, "error")
           /\ ~Has(run[r].events, "task_complete")
           /\ run[r].pc = "returned"

\* run r reads a set stop flag at the start of the request or of a batch
ObservesStop(r) ==
    /\ run[r].pc \in {"idle", "while"}
    /\ stop_requested
    /\ run'[r] # run[r]

\* C7: a run that reads a set stop flag when it starts a request or a batch
\* emits task_stopped at once, and from then on it issues no model query, runs
\* no tool and only goes on to return (or to be closed).
C7_StopObservedEndsRun ==
    [][\A r \in Runs :
          /\ ObservesStop(r)
             => /\ run'[r].pc = "task_stopped"
                /\ run'[r].events = Append(run[r].events, "task_stopped")
          /\ (ObservesStop(r) \/ Has(run[r].events, "task_stopped"))
             => /\ run'[r].queries = run[r].queries
                /\ run'[r].executed = run[r].executed
                /\ run'[r].pc \in {"task_stopped", "returned", "closed"}
                /\ Count(run'[r].events, "ai_thinking") = Count(run[r].events, "ai_thinking")]_vars

\* a run was stopped at the start of a batch, with tool calls still to run, and
\* has returned
C7_Witness ==
    \E r \in Runs :
        /\ run[r].pc = "returned"
        /\ Has(run[r].events, "task_stopped")
        /\ run[r].queries >= 1
        /\ run[r].response.tool_calls # <<>>
        /\ run[r].executed = <<>>


\* C8: the stop flag is consumed once per stop request: over all runs there are
\* no more task_stopped events than stop requests, and a run that has ended
\* has reset the flag once for each task_stopped event it emitted.
C8_StopConsumedOnce ==
    /\ Cardinality({p \in Runs \X (1..(2 * MaxTurns + 2)) :
                       /\ p[2] <= Len(run[p[1]].events)
                       /\ run[p[1]].events[p[2]] = "task_stopped"}) <= stops
    /\ \A r \in Runs :
          Ended(r) => run[r].resets = Count(run[r].events, "task_stopped")

\* run r has appended messages of its turn and has more to append
InTurn(r) == run[r].pc \in {"while", "for", "next_query"}

\* C9: while a run is in the middle of its turn, no other request changes
\* conversation_history: the messages of a turn form one contiguous block.
C9_TurnsDoNotInterleave ==
    [][\A r \in Runs :
          (InTurn(r) /\ conversation_history' # conversation_history)
          => run'[r] # run[r]]_vars

\* ---- both loops
DecodedCalls(r) ==
    {j \in 1..(run[r].k - 1) : json_loads(run[r].response.tool_calls[j].arguments).decoded}

\* C10: whatever the results of the actions were, the actions of a turn are all
\* run in decode order: in the inline-tag loop every tag before the cursor has
\* been run, in order, and all of them when the loop is over; in the tool-call
\* loop every decoded call before k has been run, in order.
C10_FailureDoesNotStopBatch ==
    /\ (ipc \in {"loop", "feedback"})
       => /\ \A k \in 1..(cursor - 1) :
                \E j \in 1..Len(ran) :
                    ran[j].idx = k /\ ran[j].op = tags.ordered_tags[k].type
          /\ \A a, b \in 1..Len(ran) : a < b => ran[a].idx <= ran[b].idx
    /\ \A r \in Runs :
          (run[r].pc \in {"for", "next_query"})
          => /\ {run[r].executed[j].k : j \in 1..Len(run[r].executed)} = DecodedCalls(r)
             /\ \A a, b \in 1..Len(run[r].executed) :
                   a < b => run[r].executed[a].k < run[r].executed[b].k

\* the first of two actions failed and the second was run all the same
C10_WitnessInline ==
    /\ AfterLoop
    /\ Len(tags.ordered_tags) = 2
    /\ \E a, b \in 1..Len(ran) :
          ran[a].idx = 1 /\ ~ran[a].result.success /\ ran[b].idx = 2
C10_WitnessTools ==
    \E r \in Runs :
        /\ run[r].pc = "next_query"
        /\ Len(run[r].executed) = 2
        /\ ~run[r].executed[1].success
C10_Witness == C10_WitnessInline \/ C10_WitnessTools

\* ---- decode errors and events of the tool-call loop
CallAt(r, j) == run[r].response.tool_calls[j]
\* the arguments of call j are JSON and hold what the start event reads
WellFormed(r, j) ==
    /\ json_loads(CallAt(r, j).arguments).decoded
    /\ StartKeys(CallAt(r, j).name) \subseteq DOMAIN json_loads(CallAt(r, j).arguments).dict

\* C11: a tool call with malformed JSON or a missing required argument fails
\* alone: the run is not ended by it, the call is not executed, and when the
\* batch is over every well-formed sibling has been executed.
C11_DecodeFailureIsLocal ==
    \A r \in Runs :
        /\ run[r].pc # "raised"
        /\ run[r].pc = "next_query"
           => {run[r].executed[j].k : j \in 1..Len(run[r].executed)}
              = {j \in 1..Len(run[r].response.tool_calls) : WellFormed(r, j)}

\* C12: every pass of the for loop, also one whose call failed to decode,
\* appends the tool-result message of that call, with its tool_call_id, to
\* conversation_history.
C12_EveryCallAnswered ==
    [][\A r \in Runs :
          (run[r].pc = "for" /\ run'[r] # run[r] /\ run'[r].pc # "closed")
          => conversation_history' = Append(conversation_history, ToolMessage(r, run[r].k))]_vars

StartEvents == {"command_start", "file_read_start", "file_write_start"}
ResultEvents == {"command_result", "file_read_success", "file_read_error",
                 "file_write_success", "file_write_error"}
NewEvents(r) == SubSeq(run'[r].events, Len(run[r].events) + 1, Len(run'[r].events))

\* C14: every executed tool call, whatever its tool name, puts one start event
\* and then one result event on the stream, in the pass of the for loop that
\* executes it (so the result events follow the order of the calls).
C14_StartThenResult ==
    [][\A r \in Runs :
          Len(run'[r].executed) = Len(run[r].executed) + 1
          => /\ Len(NewEvents(r)) >= 2
             /\ NewEvents(r)[1] \in StartEvents
             /\ NewEvents(r)[2] \in ResultEvents
             /\ \A j \in 3..Len(NewEvents(r)) :
                   NewEvents(r)[j] \notin StartEvents \cup ResultEvents]_vars

\* C15: the events of a request that is over, by a return or by an exception,
\* hold exactly one 'end' marker, and it is the last event.
C15_EndMarkerCloses ==
    \A r \in Runs :
        run[r].pc \in {"returned", "raised"}
        => /\ Count(run[r].events, "end") = 1
           /\ run[r].events[Len(run[r].events)] = "end"

\* ---- errors fed back by the inline-tag loop
\* entry j of `ran` is a failed WRITEFILE, or a failed command that did not ask
\* for its output
FailedSilently(j) ==
    /\ ~ran[j].result.success
    /\ \/ ran[j].op = "writefile"
       \/ ran[j].op = "command" /\ ~tags.ordered_tags[ran[j].idx].data[1]
PromptHasError(prompt, error) ==
    \E a \in 1..Len(prompt.parts) :
        \E b \in 1..Len(prompt.parts[a]) : prompt.parts[a][b] = <<"Error: ", error>>

\* C13: when an action of a turn failed and the loop queries the model again,
\* the prompt of that query contains the error of the failed action.
C13_FailureReachesModel ==
    (ipc = "entered" /\ sent.kind # "user_input")
    => \A j \in 1..Len(ran) : FailedSilently(j) => PromptHasError(sent, ran[j].result.error)

\* ---- termination
\* C16: every request that was started comes to an end (returned, raised or
\* closed), given that each of its queries and tools returns.
C16_EveryRunEnds == \A r \in Runs : (run[r].pc # "idle") ~> Ended(r)


\* ---- context compression
FirstOf(history) == SubSeq(history, 1, 1)
RecentOf(history) == IF Len(history) >= RECENT_MESSAGES THEN Last(history, RECENT_MESSAGES) ELSE history
Compresses(r) == llm[r].pc = "summarizing" /\ llm'[r] # llm[r] /\ llm'[r].summarization_info.summarized

\* C17: whenever summarize_context returns a summarization record, the stored
\* conversation has strictly fewer messages than before, the same first
\* message and the same last 4 messages.
C17_CompressionShrinks ==
    [][\A r \in Runs : Compresses(r) =>
          /\ Len(conversation_history') < Len(conversation_history)
          /\ FirstOf(conversation_history') = FirstOf(conversation_history)
          /\ RecentOf(conversation_history') = RecentOf(conversation_history)]_vars

\* the summary request of caller r's current query_llm call failed
SummaryFailed(r) == llm[r].to_summarize > 0 /\ ~llm[r].summarization_info.summarized

\* C18: a summary request that fails leaves conversation_history exactly as it
\* was, the pending query is then sent with the stored, uncompressed
\* conversation, and the caller's next query_llm call whose estimate is over
\* the target asks for a summary again.
C18_FailedSummaryIsHarmless ==
    [][\A r \in Runs :
          /\ (llm[r].pc = "summarizing" /\ llm'[r] # llm[r] /\ ~llm'[r].summarization_info.summarized) =>
                 /\ conversation_history' = conversation_history
                 /\ llm'[r].pc = "ready"
          /\ (llm[r].pc = "ready" /\ SummaryFailed(r) /\ llm'[r] # llm[r]) =>
                 /\ llm'[r].pc = "posting"
                 /\ llm'[r].messages = <<SystemPrompt>> \o conversation_history \o <<Message(r, "user")>>
          /\ (llm[r].pc = "idle" /\ llm[r].failed > 0 /\ SummarizationDue /\ llm'[r].pc # "idle") =>
                 llm'[r].pc = "summarizing"]_vars

\* a caller whose summary request failed before is asking for a summary again
C18_Witness == \E r \in Runs : llm[r].pc = "summarizing" /\ llm[r].failed > 0

\* ---- message order
Appended(old, new) == Len(new) > Len(old) /\ SubSeq(new, 1, Len(old)) = old
\* the oldest d messages are gone, the others follow in their order, new ones after
DroppedOldest(old, new) ==
    \E d \in 1..Len(old) :
        /\ Len(new) >= Len(old) - d
        /\ SubSeq(new, 1, Len(old) - d) = SubSeq(old, d + 1, Len(old))
\* the messages i+1..j have become one summary, the others are as they were
MiddleReplaced(old, new) ==
    \E i \in 0..Len(old) : \E j \in (i + 1)..Len(old) :
        /\ Len(new) = Len(old) - (j - i) + 1
        /\ SubSeq(new, 1, i) = SubSeq(old, 1, i)
        /\ "summary" \in DOMAIN new[i + 1]
        /\ SubSeq(new, i + 2, Len(new)) = SubSeq(old, j + 1, Len(old))
Sends(r) == llm[r].pc = "ready" /\ llm'[r].pc = "posting"

\* C19: every query sent is the system prompt, then the stored conversation in
\* its stored order, then the new user prompt; and the stored conversation
\* changes only by an append at the end, by losing its oldest messages (CLI
\* agent), by one contiguous span becoming a summary (web agent), or by a clear.
C19_OrderIsKept ==
    [][/\ \A r \in Runs : Sends(r) =>
              llm'[r].messages = <<SystemPrompt>> \o conversation_history \o <<Message(r, "user")>>
       /\ conversation_history' # conversation_history =>
              \/ Appended(conversation_history, conversation_history')
              \/ agent = "cli" /\ DroppedOldest(conversation_history, conversation_history')
              \/ agent # "cli" /\ MiddleReplaced(conversation_history, conversation_history')
              \/ conversation_history' = <<>>]_vars

\* ---- execute_tool
ToolLog == {i \in DOMAIN xlog : xlog[i].entry = "execute_tool"}
ThrewInside(c) == execute_tool_try(c.tool_name, c.arguments, c.host).raised

\* C20: execute_tool returns one result record with a boolean success field for
\* every tool name and argument object (unknown tool, missing argument,
\* missing file and unknown edit operation included) and raises nothing.
C20_ExecuteToolAlwaysReturns ==
    \A i \in ToolLog :
        /\ ~xlog[i].outcome.raised
        /\ xlog[i].outcome.value.success \in BOOLEAN
        /\ (ThrewInside(xlog[i]) \/ xlog[i].tool_name \notin {"execute_command", "read_file", "edit_file"})
              => xlog[i].outcome.value.success = FALSE

\* a call whose branch raised (a missing argument or a missing file) next to a
\* call of an unknown tool or of an unknown edit operation, both answered
C20_Witness ==
    \E i, j \in ToolLog :
        /\ ThrewInside(xlog[i])
        /\ \/ xlog[j].tool_name = "no_such_tool"
           \/ xlog[j].outcome.value = ToolFailure(<<MSG_UNKNOWN_OPERATION>>, 1)
        /\ ~xlog[i].outcome.raised /\ ~xlog[j].outcome.raised

\* ---- the file tools
Edits(operation) ==
    {i \in DOMAIN xlog : xlog[i].entry = "edit_file" /\ xlog[i].arguments["operation"] = operation}
\* the number of indexes at which sub occurs in s
Occurrences(s, sub) == Cardinality({p \in 1..(Len(s) + 1) : StartsAt(s, p, sub)})

\* C21: a replace whose search text does not occur in the file fails; one whose
\* search text occurs k > 0 times succeeds with replacements = k and leaves a
\* file with no occurrence of the search text.
C21_ReplaceCountsAndRemoves ==
    \A i \in Edits("replace") :
        LET c == xlog[i]
            k == Occurrences(c.before.content, c.arguments["search"])
        IN  (c.before.exists /\ c.perm) =>
               /\ k = 0 => ~c.result.success
               /\ k > 0 => /\ c.result.success
                           /\ c.result.replacements = k
                           /\ Occurrences(c.after.content, c.arguments["search"]) = 0

\* the lines of a file, none for a missing one
LinesOf(f) == IF f.exists THEN readlines(f.content) ELSE <<>>
\* a text as whole lines: with a line end after its last character
AsLines(content) ==
    readlines(IF content[Len(content)] = "\n" THEN content ELSE content \o <<"\n">>)
\* where line number L of n lines puts new lines: before line L, or clamped
InsertAt(L, n) == IF L < 1 THEN 0 ELSE IF L > n THEN n ELSE L - 1

\* C22: an insert of a non-empty content at any integer line number L succeeds
\* and leaves the old lines, in their order, with the content as new lines
\* before line L (at the start for L < 1, at the end for L > n); on an empty or
\* missing file the content becomes the first line.
C22_InsertClamps ==
    \A i \in Edits("insert") :
        LET c == xlog[i]
            old == LinesOf(c.before)
            L == Get(c.arguments, "line_number", 1)
            k == InsertAt(L, Len(old))
        IN  (c.perm /\ c.arguments["content"] # <<>>) =>
               /\ c.result.success
               /\ LinesOf(c.after) =
                     SubSeq(old, 1, k) \o AsLines(c.arguments["content"]) \o SubSeq(old, k + 1, Len(old))

Reads == {i \in DOMAIN xlog : xlog[i].entry = "read_file" /\ xlog[i].before.exists}

\* C23: read_file with a line range returns exactly the lines
\* max(1, start)..min(n, end) of the n lines, in order; without a range it
\* returns the whole file.
C23_ReadClamps ==
    \A i \in Reads :
        LET c == xlog[i]
            lines == readlines(c.before.content)
        IN  /\ {"start_line", "end_line"} \subseteq DOMAIN c.arguments =>
                  /\ c.result.success
                  /\ c.result.output =
                        join(SubSeq(lines, Max(1, c.arguments["start_line"]),
                                           Min(Len(lines), c.arguments["end_line"])))
            /\ DOMAIN c.arguments = {"filename"} =>
                  c.result.success /\ c.result.output = c.before.content

\* a path under a protected system directory
IsProtected(path) == path = PATH_PASSWD
Writes == {i \in DOMAIN xlog : xlog[i].entry \in {"edit_file", "writefile"}}

\* C24: every write action (inline WRITEFILE, edit_file write, append, insert,
\* replace) on a path under a protected system path gives a failure with an
\* error and leaves the file as it was.
C24_ProtectedPathsRejected ==
    \A i \in Writes :
        IsProtected(xlog[i].arguments["filename"]) =>
            /\ ~xlog[i].result.success
            /\ xlog[i].result.error # <<>>
            /\ xlog[i].after = xlog[i].before

\* ---- the hello.txt scenario
\* the event kinds of the scenario: thinking, action start, action result,
\* turn complete
IsTurnEvent(e) ==
    e \in {"ai_thinking", "file_write_start", "file_write_success", "file_write_error",
           "file_read_start", "file_read_success", "file_read_error", "task_complete"}
TurnEvents(r) == SelectSeq(run[r].events, IsTurnEvent)
\* the request is over, its first response was the one write of "hi" to
\* /tmp/hello.txt and its second response asked for nothing more
HelloDone(r) ==
    /\ run[r].pc = "returned"
    /\ run[r].queries = 2
    /\ run[r].response = [success |-> TRUE, tool_calls |-> <<>>]
    /\ Len(xlog) = 1
    /\ xlog[1].arguments = [filename |-> PATH_HELLO, operation |-> "write", content |-> TXT_HI]
    /\ xlog[1].perm

\* C25: in the hello.txt scenario the write reports success with size 2 and the
\* events are exactly thinking, write start, write success, turn complete.
C25_HelloScenario ==
    \A r \in LiveRuns :
        HelloDone(r) =>
            /\ xlog[1].result.success
            /\ xlog[1].result.size = 2
            /\ file.content = TXT_HI
            /\ TurnEvents(r) = <<"ai_thinking", "file_write_start", "file_write_success",
                                 "task_complete">>

\* ---- how a turn of the inline-tag loop ends
\* the for loop is over, it ran at least one action, no command asked for its
\* output and the response had no DONE marker
SilentTurn ==
    /\ AfterLoop
    /\ ran # <<>>
    /\ \A k \in DOMAIN tags.ordered_tags :
          tags.ordered_tags[k].type = "command" => ~tags.ordered_tags[k].data[1]
    /\ ~tags.is_done

\* C26: after a turn that ran actions, none of them feedback-worthy, with no
\* DONE marker, the loop goes on with exactly one query, whose prompt is the
\* 'Operations completed' one: it cannot stop there and it has a step to take.
C26_SilentTurnIsNudged ==
    /\ []((SilentTurn /\ queries < MaxQueries) => ENABLED NotifyCompleted)
    /\ [][(SilentTurn /\ ipc' # ipc) =>
              /\ queries' = queries + 1
              /\ sent' = completed_prompt
              /\ ipc' = "entered"]_vars

\* the model has been sent the 'Operations completed' prompt after a turn of
\* fire-and-forget actions
C26_Witness ==
    /\ ipc = "entered"
    /\ sent = completed_prompt
    /\ ran # <<>>
    /\ \A k \in DOMAIN ran : ran[k].to = "user"

\* the response of the turn decoded to no action and no DONE
EmptyTurn == AfterLoop /\ tags.ordered_tags = <<>> /\ ~tags.is_done
\* request r receives a model answer that asks for no tool
PlainAnswer(r) ==
    /\ run[r].pc \in {"query", "next_query"}
    /\ run'[r].pc \notin {run[r].pc, "closed"}
    /\ run'[r].response.success
    /\ run'[r].response.tool_calls = <<>>

\* C27: a response with no action and no Done ends the loop in that turn with
\* no action executed and no further query (inline-tag loop: no tags;
\* tool-call loop: no tool calls).
C27_EmptyTurnEndsLoop ==
    /\ [](EmptyTurn => ran = <<>>)
    /\ [][(EmptyTurn /\ ipc' # ipc) =>
              ipc' = "idle" /\ queries' = queries /\ ran' = <<>>]_vars
    /\ [][\A r \in Runs :
              /\ PlainAnswer(r) =>
                    run'[r].pc = "returned" /\ run'[r].executed = run[r].executed
              /\ run[r].pc = "returned" => run'[r] = run[r]]_vars

\* a loop that has ended on a response without actions
C27_WitnessInline ==
    ipc = "idle" /\ queries > 0 /\ tags.ordered_tags = <<>> /\ ~tags.is_done
C27_WitnessTools ==
    \E r \in Runs :
        /\ run[r].pc = "returned"
        /\ run[r].queries = 1
        /\ run[r].response = [success |-> TRUE, tool_calls |-> <<>>]
        /\ run[r].resets = 0
C27_Witness == C27_WitnessInline \/ C27_WitnessTools

\* the executions of the turn that were shown to the user, one per action
ShownRuns == SelectSeq(ran, LAMBDA e : e.to = "user")
\* the turn returns through Step 2
TurnEndsDone == HasDone(markers) /\ ipc = "loop" /\ ipc' = "idle"

\* C28: for a response with a DONE marker at any position, every COMMAND and
\* WRITEFILE of the response has been executed, in document order, when the
\* loop terminates, and the loop does terminate then, without a query.
C28_DoneWaitsForActions ==
    /\ []((AfterLoop /\ HasDone(markers)) => ENABLED Done)
    /\ [][TurnEndsDone =>
              LET acts == SelectSeq(markers, IsActionMarker)
              IN  /\ Len(ShownRuns) = Len(acts)
                  /\ \A k \in 1..Len(acts) :
                        /\ ShownRuns[k].idx = k
                        /\ ShownRuns[k].op = tags.ordered_tags[k].type
                        /\ SameAction(tags.ordered_tags[k], acts[k])
                  /\ ran' = ran
                  /\ queries' = queries]_vars

\* ---- the end of a run of the tool-call loop
\* the generator has returned on a model answer that asks for no tool
EndsInDone(r) ==
    /\ run[r].pc = "returned"
    /\ run[r].queries >= 1
    /\ run[r].resets = 0
    /\ run[r].response = [success |-> TRUE, tool_calls |-> <<>>]

\* C29: a run of process_request_streaming that ends on a model answer without
\* tool calls has emitted exactly one task_complete event, on the first
\* response as well as after one or more batches.
C29_DoneEmitsTaskComplete ==
    \A r \in Runs : EndsInDone(r) => Count(run[r].events, "task_complete") = 1

\* ---- the two COMMAND patterns of the decoder
\* the matches of the legacy pattern that carry a command
LegacyCommands(t) == SelectSeq(FindIter("legacy", t), LAMBDA m : Strip(m.g1) # <<>>)
\* a parameterized marker matched where match m starts
ParamMatchedAt(t, m) ==
    \E k \in DOMAIN FindIter("command", t) : FindIter("command", t)[k].start = m.start
\* ordered_tags holds the command of legacy match m, with feedback wanted
YieldsCommand(m) ==
    \E k \in DOMAIN tags.ordered_tags :
        tags.ordered_tags[k] = Tag(m.start, "command", <<TRUE, Strip(m.g1)>>)

\* C30: ordered_tags has at most one entry per start position, and a legacy
\* COMMAND marker yields a command with feedback wanted exactly when no
\* parameterized marker matched at its position.
C30_NoDoubleCount ==
    tags # NoTags =>
        /\ \A i, j \in DOMAIN tags.ordered_tags :
              tags.ordered_tags[i].pos = tags.ordered_tags[j].pos => i = j
        /\ \A k \in DOMAIN LegacyCommands(text) :
              YieldsCommand(LegacyCommands(text)[k])
                  <=> ~ParamMatchedAt(text, LegacyCommands(text)[k])

\* ---- cancellation and the action batch
\* run r makes one pass of its for loop
BatchStep(r) ==
    /\ run[r].pc = "for"
    /\ run'[r] # run[r]
    /\ run'[r].pc \notin {"closed", "raised"}

\* C31: the stop flag is read at turn boundaries only: a pass of the for loop
\* goes on to the next call (or to the follow-up query) whether or not a stop
\* was requested, and a stop requested while a run is inside its turn is still
\* pending when that run starts its next batch.
C31_StopOnlyAtBoundaries ==
    [][\A r \in Runs :
          /\ BatchStep(r)
             => /\ run'[r].k = run[r].k + 1
                /\ run'[r].pc \in {"for", "next_query"}
                /\ ~Has(NewEvents(r), "task_stopped")
                /\ WellFormed(r, run[r].k)
                   => Len(run'[r].executed) = Len(run[r].executed) + 1
          /\ (InTurn(r) /\ stop_requested) => stop_requested']_vars

\* ---- context compression and the event stream
Summaries(r) == {j \in DOMAIN xlog : xlog[j] = SummaryNote(r)}

\* C32: every successful context compression made by a query of a run, the
\* initial one or a follow-up, is reported by exactly one context_summarized
\* event of that run.
C32_CompressionIsReported ==
    \A r \in Runs :
        Count(run[r].events, "context_summarized") = Cardinality(Summaries(r))

\* ---- the feedback prompt of the inline-tag loop
\* a marker whose result must go back to the model
IsFeedbackWorthy(m) ==
    /\ Strip(m.payload) # <<>>
    /\ \/ m.kind = "legacy"
       \/ m.kind = "command" /\ Lower(m.ret) = LIT_TRUE
\* the executions of the turn whose result was formatted for the model
FedBack == SelectSeq(ran, LAMBDA e : e.to = "model")
\* Step 3 or Step 4 sends its prompt
SendsPrompt == ipc = "loop" /\ ipc' = "entered"

\* C33: the prompt of the next query holds the formatted result of exactly the
\* feedback-worthy commands of the turn (return_output=true or legacy), in
\* document order, and nothing else; a turn without any sends no results.
C33_FeedbackIsExact ==
    [][SendsPrompt =>
          LET worthy == SelectSeq(markers, IsFeedbackWorthy)
          IN  IF worthy = <<>>
              THEN sent' = completed_prompt
              ELSE /\ sent'.kind = MSG_RESULTS
                   /\ Len(sent'.parts) = Len(worthy)
                   /\ Len(FedBack) = Len(worthy)
                   /\ \A k \in 1..Len(worthy) :
                         sent'.parts[k] =
                             format_feedback(Strip(worthy[k].payload), FedBack[k].result)]_vars

\* ---- the lock of web_server.py
\* a step queries the model, executes an action or changes the conversation
AgentWorks ==
    \/ queries' # queries
    \/ ran' # ran
    \/ conversation_history' # conversation_history
    \/ ipc' # ipc

\* C34: a user_message handler is between `with agent_lock:` and its end only
\* while it holds the lock, so at most one is; every query, action and change
\* of the conversation is made by the holder; and a handler that has ended,
\* by a return or by an exception, has released the lock.
C34_HandlersAreSerialized ==
    /\ [](\A h \in Runs : run[h].pc \in InsideLock <=> agent_lock = h)
    /\ [](ipc # "idle" => agent_lock # 0)
    /\ [][AgentWorks =>
              /\ agent_lock # 0
              /\ run[agent_lock].pc \in InsideLock
              /\ \A h \in Runs \ {agent_lock} : run'[h] = run[h]]_vars

\* both handlers have asked the model and have ended, one of them by an
\* exception, and the lock is free
C34_Witness ==
    /\ agent_lock = 0
    /\ \A h \in Runs : run[h].pc = "returned"
    /\ \E h \in Runs : Has(run[h].events, "error")
    /\ queries = 2

\* ---- a stop request that no run was there to read
\* no other request is in flight: each is still to be submitted or has ended
NoneInFlight(r) == \A q \in Runs \ {r} : run[q].pc = "idle" \/ Ended(q)
\* request r is submitted and makes its first stop check
Submitted(r) == run[r].pc = "idle" /\ run'[r].pc # "idle"

\* C35: a request submitted when no other run is in flight is not stopped at
\* its start: a stop requested before it was submitted (with no run in flight,
\* or after the last stop check of the run before) does not reach it.
C35_StaleStopIsDropped ==
    [][\A r \in Runs :
          (Submitted(r) /\ NoneInFlight(r))
          => /\ run'[r].pc = "query"
             /\ ~Has(run'[r].events, "task_stopped")]_vars

\* ---- tool calls and their results in the conversation sent to the model
HasToolCalls(m) == m.role = "assistant" /\ "tool_calls" \in DOMAIN m
\* in the message list ms every assistant message with n tool calls is followed
\* by the n results of its calls, and every result follows its assistant message
Paired(ms) ==
    /\ \A i \in DOMAIN ms :
          HasToolCalls(ms[i]) =>
              \A id \in 1..ms[i].tool_calls :
                  /\ i + id <= Len(ms)
                  /\ ms[i + id] = ToolMessage(ms[i].run, id)
    /\ \A j \in DOMAIN ms :
          ms[j].role = "tool" =>
              /\ j - ms[j].tool_call_id >= 1
              /\ HasToolCalls(ms[j - ms[j].tool_call_id])
              /\ ms[j - ms[j].tool_call_id].run = ms[j].run
              /\ ms[j - ms[j].tool_call_id].tool_calls >= ms[j].tool_call_id

\* C36: in every message list that query_llm sends to the model, each assistant
\* message with tool calls is followed by one tool-result message per call id
\* and each tool-result message is preceded by the assistant message of its id.
C36_ToolCallsArePaired ==
    \A r \in Runs : Paired(llm[r].messages)

\* the turn that processes the text of the failed query of a request
FailedTurn == sent = user_prompt /\ ipc # "idle"

\* C37: in the command line agent the text that query_llm returns for a failed
\* query is never executed: while that text is processed no command is run, no
\* file is written and no further query is sent.
C37_FailedQueryIsInert ==
    [][FailedTurn => (Len(ran') =< Len(ran) /\ queries' = queries)]_vars

\* ---- the stored conversation and the outcome of a query
\* the query_llm call of caller r returns in this step
Returns(r) == llm[r].pc = "posting" /\ llm'[r].pc = "idle"
Outcome == xlog'[Len(xlog')]
ExchangeOf(r) == <<Message(r, "user"), Message(r, "assistant")>>

\* C38: a query_llm call that fails stores nothing, in either agent; a call
\* that succeeds stores the user prompt and the assistant message together at
\* the end of the conversation.
C38_FailedQueryStoresNothing ==
    [][\A r \in Runs : Returns(r) =>
          IF Outcome.success
          THEN /\ Len(conversation_history') >= 2
               /\ Last(conversation_history', 2) = ExchangeOf(r)
          ELSE conversation_history' = conversation_history]_vars

\* ---- the command line agent's stored conversation
\* user, assistant, user, assistant, ...
Alternates(history) ==
    \A i \in 1..Len(history) : history[i].role = IF i % 2 = 1 THEN "user" ELSE "assistant"
WellShaped(history) ==
    /\ Len(history) =< HISTORY_LIMIT
    /\ Len(history) % 2 = 0
    /\ Alternates(history)

\* C39: whatever queries and clears the command line agent has served, its
\* stored conversation has at most 20 messages, an even number of them,
\* alternating user then assistant from a user message; a successful query
\* leaves the last 20 messages of the old conversation followed by the new
\* exchange, so what is dropped is the oldest.
C39_HistoryIsBounded ==
    /\ [](agent = "cli" => WellShaped(conversation_history))
    /\ [][(agent = "cli" /\ Returns(1) /\ Outcome.success) =>
             conversation_history' =
                 Last(conversation_history \o ExchangeOf(1),
                      Min(HISTORY_LIMIT, Len(conversation_history) + 2))]_vars

\* a full conversation has taken a new exchange and lost its two oldest messages
C39_Witness ==
    /\ agent = "cli"
    /\ Len(conversation_history) = HISTORY_LIMIT
    /\ conversation_history[1] = OldMessage(3, 0)
    /\ Last(conversation_history, 2) = ExchangeOf(1)

\* ---- edit_file replace without a match
\* the replace calls on an existing file in which the search text does not occur
ReplaceMisses ==
    {i \in Edits("replace") :
        /\ xlog[i].before.exists
        /\ Occurrences(xlog[i].before.content, xlog[i].arguments["search"]) = 0}

\* C40: an edit_file replace whose search text has no match in the file fails
\* and leaves the file as it was.
C40_MissedReplaceKeepsFile ==
    \A i \in ReplaceMisses :
        /\ ~xlog[i].result.success
        /\ xlog[i].after = xlog[i].before

\* a writable file with content was searched for a text it does not hold
C40_Witness ==
    \E i \in ReplaceMisses :
        /\ xlog[i].perm
        /\ xlog[i].before.content # <<>>
        /\ xlog[i].arguments["search"] # <<>>
        /\ xlog[i].result.error = <<MSG_NOT_FOUND>>

====

